---- MODULE Spec2Model ----
(***************************************************************************)
(* Model of the Timer / PWM / Encoder / DRV8870 drivers of the             *)
(* nucleo_h563zi firmware (Timer.c, PWM.c, Encoder.c, Mutex.c, DRV8870.c). *)
(*                                                                         *)
(* Every C function is an operator that maps the driver structures it      *)
(* reads to the structures it leaves behind and its return value; an       *)
(* action applies one public function to the current state.  The HAL and   *)
(* the RTOS are the environment: the result of a HAL call and whether      *)
(* another task keeps the RTOS mutex for the whole acquire timeout are     *)
(* inputs of the call.                                                     *)
(***************************************************************************)
EXTENDS Integers, Sequences, FiniteSets, TLC

VARIABLES
    timPtr,         \* Timer.timHandle->Instance: the TIM block the Timer wraps
    channelMode,    \* Timer.channelMode[TIMER_MAX_NUM_CHANNELS]
    ndebug,         \* the build: TRUE when assert() is compiled out (NDEBUG)
    aborted,        \* an assert() has failed and the program has aborted
    pwmObjs,        \* channels for which PWM_ctor has returned a PWM struct
    pwmState,       \* PWM.state of the PWM struct of each channel
    PSC,            \* TIM.PSC register
    ARR,            \* TIM.ARR register
    CCR,            \* TIM.CCRx registers, by channel
    chEn,           \* channels whose PWM output the HAL has started
    mutex,          \* the Mutex of the timer: [kind, owner]
    initPeriod,     \* Encoder: timHandle->Init.Period (the maximum count)
    CNT,            \* TIM.CNT register of the encoder
    encEn,          \* the HAL has started the encoder interface
    drvState,       \* DRV8870.state
    last,           \* the last public call: what was called and what it returned
    pc,             \* by task: where the task is in the function it executes
    frame,          \* by task: the function the task executes, its arguments
                    \* and locals, and what its last call returned
    hwStarts,       \* by channel: the HAL_TIM_PWM_Start calls that returned HAL_OK
    calc,           \* the last call of a calculation function: its arguments
                    \* and its result
    gpio,           \* Encoder.gpio[2]: the port and the pin mask (a set of pin
                    \* numbers) of encoder channels 1 and 2
    gpioInit,       \* the pins HAL_GPIO_Init has configured: port, pin number
                    \* and alternate function
    dio             \* the DIO_IRQ singleton: configs, mutex, initialized

vars == <<timPtr, channelMode, ndebug, aborted, pwmObjs, pwmState, PSC, ARR, CCR,
          chEn, mutex, initPeriod, CNT, encEn, drvState, last, pc, frame, hwStarts, calc,
          gpio, gpioInit, dio>>

(***************************************************************************)
(* Timer.c                                                                 *)
(***************************************************************************)

TIMER_CHANNEL_1 == 0
TIMER_CHANNEL_2 == 1
TIMER_CHANNEL_3 == 2
TIMER_CHANNEL_4 == 3
TIMER_CHANNEL_5 == 4
TIMER_CHANNEL_6 == 5
TIMER_MAX_NUM_CHANNELS == 6

Channels == 0 .. (TIMER_MAX_NUM_CHANNELS - 1)

\* The TIM blocks the capability checks of Timer.c tell apart, and two
\* blocks (TIM1, TIM2) that none of them names.
TIMs == {"TIM1", "TIM2", "TIM6", "TIM7", "TIM12", "TIM13", "TIM14", "TIM15",
         "TIM16", "TIM17"}

Channel_Mode_t == {"CHANNEL_MODE_RESET", "CHANNEL_MODE_PWM", "CHANNEL_MODE_ENCODER"}

\* Timer_ctor: the designated initialiser leaves channelMode zeroed.
Timer_ctor == [c \in Channels |-> "CHANNEL_MODE_RESET"]

isChannelValid(channel) ==
    IF (channel /= TIMER_CHANNEL_1) \/
       (channel /= TIMER_CHANNEL_2) \/
       (channel /= TIMER_CHANNEL_3) \/
       (channel /= TIMER_CHANNEL_4) \/
       (channel /= TIMER_CHANNEL_5) \/
       (channel /= TIMER_CHANNEL_6)
    THEN FALSE
    ELSE TRUE

isPWMChannelValid(channel) ==
    IF (channel /= TIMER_CHANNEL_1) \/
       (channel /= TIMER_CHANNEL_2) \/
       (channel /= TIMER_CHANNEL_3) \/
       (channel /= TIMER_CHANNEL_4)
    THEN FALSE
    ELSE TRUE

validatePWMChannel(tp, channel) ==
    IF isPWMChannelValid(channel) = FALSE THEN FALSE
    ELSE IF tp \in {"TIM6", "TIM7"} THEN FALSE
    ELSE IF tp \in {"TIM12", "TIM15"}
         THEN (IF (channel /= TIMER_CHANNEL_1) \/ (channel /= TIMER_CHANNEL_2)
               THEN FALSE ELSE TRUE)
    ELSE IF tp \in {"TIM13", "TIM14", "TIM16", "TIM17"}
         THEN (IF channel /= TIMER_CHANNEL_1 THEN FALSE ELSE TRUE)
    ELSE TRUE

validateEncoderTimer(tp) ==
    IF tp \in {"TIM6", "TIM7"} THEN FALSE
    ELSE IF tp \in {"TIM12", "TIM15"} THEN FALSE
    ELSE IF tp \in {"TIM13", "TIM14", "TIM16", "TIM17"} THEN FALSE
    ELSE TRUE

Timer_IsModeEncoder(cm) ==
    (cm[TIMER_CHANNEL_1] = "CHANNEL_MODE_ENCODER") \/
    (cm[TIMER_CHANNEL_2] = "CHANNEL_MODE_ENCODER")

Timer_IsModePWM(cm, channel) ==
    IF isChannelValid(channel) = FALSE THEN FALSE
    ELSE cm[channel] = "CHANNEL_MODE_PWM"

\* Timer_SetModePWM: the channel modes it leaves and its return value.
Timer_SetModePWM(tp, cm, channel) ==
    IF isChannelValid(channel) = FALSE
    THEN [cm |-> cm, ret |-> "TIMER_ERR_INVALID_PARAM"]
    ELSE IF validatePWMChannel(tp, channel) = FALSE
    THEN [cm |-> cm, ret |-> "TIMER_ERR_MODE_INVALID"]
    ELSE IF Timer_IsModeEncoder(cm) = TRUE
    THEN [cm |-> cm, ret |-> "TIMER_ERR_MODE_CONFLICT"]
    ELSE IF cm[channel] /= "CHANNEL_MODE_RESET"
    THEN [cm |-> cm, ret |-> "TIMER_ERR_MODE_CONFLICT"]
    ELSE [cm |-> [cm EXCEPT ![channel] = "CHANNEL_MODE_PWM"],
          ret |-> "TIMER_ERR_NONE"]

\* Timer_SetModeEncoder: the channel modes it leaves and its return value.
Timer_SetModeEncoder(tp, cm) ==
    IF validateEncoderTimer(tp) = FALSE
    THEN [cm |-> cm, ret |-> "TIMER_ERR_MODE_INVALID"]
    ELSE IF (cm[TIMER_CHANNEL_1] /= "CHANNEL_MODE_RESET") /\
            (cm[TIMER_CHANNEL_2] /= "CHANNEL_MODE_RESET")
    THEN [cm |-> cm, ret |-> "TIMER_ERR_MODE_CONFLICT"]
    ELSE [cm |-> [cm EXCEPT ![TIMER_CHANNEL_1] = "CHANNEL_MODE_ENCODER",
                            ![TIMER_CHANNEL_2] = "CHANNEL_MODE_ENCODER"],
          ret |-> "TIMER_ERR_NONE"]

(***************************************************************************)
(* Helper.c                                                                *)
(***************************************************************************)

RECURSIVE Pow2(_)
Pow2(n) == IF n = 0 THEN 1 ELSE 2 * Pow2(n - 1)

\* A value stored in an unsigned integer of the given width.  Every natural
\* number TLC can represent is below 2^31, so a width above 30 bits
\* stores it unchanged.
UIntWrap(bits, x) == IF bits > 30 THEN x ELSE x % Pow2(bits)

UINT32_BITS == 32
UINT16_BITS == 16

\* A UIntDivideWithRound that divides the sum whether or not it wrapped
UIntDivideWithRoundW_NoOverflowCheck(bits, dividend, divisor, round) ==
    UIntWrap(bits, dividend + round) \div divisor

\* UIntDivideWithRound on unsigned integers of the given width.
UIntDivideWithRoundW(bits, dividend, divisor, round) ==
    LET roundDividend == UIntWrap(bits, dividend + round)
    IN  IF (roundDividend < dividend) \/ (roundDividend < round)
        THEN dividend \div divisor
        ELSE roundDividend \div divisor

UIntDivideWithRound(dividend, divisor, round) ==
    UIntDivideWithRoundW(UINT32_BITS, dividend, divisor, round)

\* UIntRoundingDivide and UIntCeilingDivide on unsigned integers of the
\* given width
UIntRoundingDivideW(bits, dividend, divisor) ==
    UIntDivideWithRoundW(bits, dividend, divisor, divisor \div 2)

UIntCeilingDivideW(bits, dividend, divisor) ==
    UIntDivideWithRoundW(bits, dividend, divisor, divisor - 1)

UIntRoundingDivide(dividend, divisor) ==
    UIntRoundingDivideW(UINT32_BITS, dividend, divisor)

UIntCeilingDivide(dividend, divisor) ==
    UIntCeilingDivideW(UINT32_BITS, dividend, divisor)

\* n & (n - 1u) on a uint32_t held as its two 16-bit halves <<high, low>>;
\* n - 1u wraps to 0xFFFFFFFF for n = 0.
ClearRightmostSetBit(n) ==
    LET minusOne == IF n[2] > 0 THEN <<n[1], n[2] - 1>>
                    ELSE IF n[1] > 0 THEN <<n[1] - 1, 65535>>
                    ELSE <<65535, 65535>>
        RECURSIVE And16(_, _, _)
        And16(x, y, i) ==
            IF i = UINT16_BITS THEN 0
            ELSE (IF ((x \div Pow2(i)) % 2 = 1) /\ ((y \div Pow2(i)) % 2 = 1)
                  THEN Pow2(i) ELSE 0) + And16(x, y, i + 1)
    IN  <<And16(n[1], minusOne[1], 0), And16(n[2], minusOne[2], 0)>>

\* RightmostSetBit: n ^= mask leaves the rightmost set bit alone, and the
\* loop counts the shifts that it takes to shift that bit out of n.
RightmostSetBit(n) ==
    LET mask == ClearRightmostSetBit(n)
        RECURSIVE Xor16(_, _, _)
        Xor16(x, y, i) ==
            IF i = UINT16_BITS THEN 0
            ELSE (IF ((x \div Pow2(i)) % 2) /= ((y \div Pow2(i)) % 2)
                  THEN Pow2(i) ELSE 0) + Xor16(x, y, i + 1)
        RECURSIVE While(_, _)
        While(m, position) ==
            IF m = <<0, 0>> THEN position
            ELSE While(<<m[1] \div 2, (m[2] \div 2) + ((m[1] % 2) * 32768)>>,
                       (position + 1) % 256)
    IN  While(<<Xor16(n[1], mask[1], 0), Xor16(n[2], mask[2], 0)>>, 0)

\* The same functions on the whole range of uint32_t.  A uint32_t x is the
\* pair <<x \div 65536, x % 65536>> of its 16-bit halves; divisors and
\* rounding corrections are 16-bit values.
UInt32Less(x, y) == (x[1] < y[1]) \/ (x[1] = y[1] /\ x[2] < y[2])

\* x + y modulo 2^32 for a 16-bit y
UInt32Add(x, y) ==
    LET lo == x[2] + y
    IN  <<(x[1] + (lo \div 65536)) % 65536, lo % 65536>>

\* x / divisor for a 16-bit divisor other than 0, by long division over
\* the high half and the two bytes of the low half
UInt32Divide(x, divisor) ==
    LET t1 == (x[1] % divisor) * 256 + (x[2] \div 256)
        t2 == (t1 % divisor) * 256 + (x[2] % 256)
    IN  <<x[1] \div divisor, (t1 \div divisor) * 256 + (t2 \div divisor)>>

UIntDivideWithRound32(dividend, divisor, round) ==
    LET roundDividend == UInt32Add(dividend, round)
    IN  IF UInt32Less(roundDividend, dividend) \/ UInt32Less(roundDividend, <<0, round>>)
        THEN UInt32Divide(dividend, divisor)
        ELSE UInt32Divide(roundDividend, divisor)

UIntRoundingDivide32(dividend, divisor) ==
    UIntDivideWithRound32(dividend, divisor, divisor \div 2)

UIntCeilingDivide32(dividend, divisor) ==
    UIntDivideWithRound32(dividend, divisor, divisor - 1)

(***************************************************************************)
(* Mutex.c                                                                 *)
(*                                                                         *)
(* mutex.kind is the configuration of the Mutex:                           *)
(*   "rtos"    CMSIS-RTOS2 build, mutexID names an RTOS mutex              *)
(*   "null_id" CMSIS-RTOS2 build, mutexID is NULL                          *)
(*   "flag"    build without CMSIS-RTOS2: the acquired flag                *)
(* mutex.owner is the task that holds the RTOS mutex, or for "flag" the    *)
(* task that set acquired; "none" when free.                               *)
(***************************************************************************)

Tasks == {"T1", "T2"}
MutexKinds == {"rtos", "null_id", "flag"}

Mutex_ctor(kind) == [kind |-> kind, owner |-> "none"]

\* An osMutexAcquire that hands the mutex out whoever holds it
osMutexAcquire_IgnoresOwner(m, t, busy) ==
    [ok |-> TRUE, m |-> [m EXCEPT !.owner = t]]

\* osMutexAcquire with the 5 ms timeout, on a mutex created without
\* osMutexRecursive: it succeeds when nobody holds the mutex; busy says that
\* a task outside the model holds it for the whole timeout.
osMutexAcquire(m, t, busy) ==
    IF (m.owner = "none") /\ (busy = FALSE)
    THEN [ok |-> TRUE, m |-> [m EXCEPT !.owner = t]]
    ELSE [ok |-> FALSE, m |-> m]

\* osMutexRelease: only the owner releases.
osMutexRelease(m, t) ==
    IF m.owner = t
    THEN [ok |-> TRUE, m |-> [m EXCEPT !.owner = "none"]]
    ELSE [ok |-> FALSE, m |-> m]

Mutex_Acquire(m, t, busy) ==
    IF m.kind = "null_id" THEN [ok |-> TRUE, m |-> m]
    ELSE IF m.kind = "rtos" THEN osMutexAcquire(m, t, busy)
    ELSE IF m.owner /= "none" THEN [ok |-> FALSE, m |-> m]
    ELSE [ok |-> TRUE, m |-> [m EXCEPT !.owner = t]]

Mutex_Release(m, t) ==
    IF m.kind = "null_id" THEN [ok |-> TRUE, m |-> m]
    ELSE IF m.kind = "rtos" THEN osMutexRelease(m, t)
    ELSE IF m.owner = "none" THEN [ok |-> FALSE, m |-> m]
    ELSE [ok |-> TRUE, m |-> [m EXCEPT !.owner = "none"]]

\* What reading self->mutexID (or self->acquired) through a null Mutex
\* pointer gives in a build without assert: a value that reads as a NULL id
\* (an unset flag), any other value, or a fault.
NullDerefs == {"reads_zero", "reads_other", "fault"}

\* Mutex_Acquire and Mutex_Release called with self = NULL, as
\* Timer_AcquireMutex, Timer_ReleaseMutex and the Encoder functions do for a
\* struct constructed with a NULL timMutexPtr: assert(self != NULL) aborts
\* unless the build defines NDEBUG, and then the member is read through the
\* null pointer.
Mutex_NullSelf(nd, deref) ==
    IF nd = FALSE
    THEN [ok |-> FALSE, aborted |-> TRUE]
    ELSE [ok |-> (deref = "reads_zero"), aborted |-> (deref = "fault")]

Timer_AcquireMutex(m, t, busy) == Mutex_Acquire(m, t, busy)

Timer_ReleaseMutex(m, t) == Mutex_Release(m, t)

(***************************************************************************)
(* PWM.c                                                                   *)
(*                                                                         *)
(* A PWM function takes the world w it runs in: the PWM structs            *)
(* (w.pwmState), the TIM registers (w.PSC, w.ARR, w.CCR, w.chEn) and the   *)
(* timer mutex (w.mutex); t is the calling task, busy and hal are the      *)
(* environment's answers to this call.  It yields the world it leaves      *)
(* and its return value.                                                   *)
(***************************************************************************)

DUTY_CYCLE_MIN_TENTH_PCT == 0
DUTY_CYCLE_MAX_TENTH_PCT == 1000
TIM_REG_ARR_MAX == 65535

\* HAL_RCC_GetPCLK1Freq / HAL_RCC_GetPCLK2Freq: the APB timer clocks
HAL_RCC_GetPCLK1Freq == 170000000
HAL_RCC_GetPCLK2Freq == 170000000

Timer_GetClockFrequency_hz(tp) ==
    IF tp \in {"TIM1", "TIM8"} THEN HAL_RCC_GetPCLK2Freq ELSE HAL_RCC_GetPCLK1Freq

\* A limitDutyCycle_tenthPct that passes every value on
limitDutyCycle_tenthPct_NoLimit(dutyCycle_tenthPct) == dutyCycle_tenthPct

limitDutyCycle_tenthPct(dutyCycle_tenthPct) ==
    IF dutyCycle_tenthPct > DUTY_CYCLE_MAX_TENTH_PCT
    THEN DUTY_CYCLE_MAX_TENTH_PCT
    ELSE dutyCycle_tenthPct

\* A calculateFrequencyRegisters without the test of the overflow against
\* the duty-cycle resolution
calculateFrequencyRegisters_NoResolutionCheck(switchingFrequency_hz, sourceFrequency_hz, maxOverflow) ==
    IF (switchingFrequency_hz = 0) \/ (sourceFrequency_hz = 0) \/ (maxOverflow = 0)
    THEN [err |-> "PWM_ERR_INVALID_PARAM", timRegARR |-> 0, timRegPSC |-> 0]
    ELSE
      LET cycles    == sourceFrequency_hz \div switchingFrequency_hz
          overflow  == IF cycles < maxOverflow
                       THEN UIntWrap(UINT16_BITS, cycles) ELSE maxOverflow
          prescaler == UIntWrap(UINT16_BITS, UIntCeilingDivide(cycles, overflow))
          overflow2 == UIntWrap(UINT16_BITS, UIntRoundingDivide(cycles, prescaler))
      IN  [err |-> "PWM_ERR_NONE",
           timRegARR |-> overflow2,
           timRegPSC |-> UIntWrap(UINT16_BITS, prescaler + 65535)]

calculateFrequencyRegisters(switchingFrequency_hz, sourceFrequency_hz, maxOverflow) ==
    IF (switchingFrequency_hz = 0) \/ (sourceFrequency_hz = 0) \/ (maxOverflow = 0)
    THEN [err |-> "PWM_ERR_INVALID_PARAM", timRegARR |-> 0, timRegPSC |-> 0]
    ELSE
      LET cycles    == sourceFrequency_hz \div switchingFrequency_hz
          overflow  == IF cycles < maxOverflow
                       THEN UIntWrap(UINT16_BITS, cycles) ELSE maxOverflow
          prescaler == UIntWrap(UINT16_BITS, UIntCeilingDivide(cycles, overflow))
          overflow2 == UIntWrap(UINT16_BITS, UIntRoundingDivide(cycles, prescaler))
      IN  IF overflow < DUTY_CYCLE_MAX_TENTH_PCT
          THEN [err |-> "PWM_ERR_INVALID_PARAM", timRegARR |-> 0, timRegPSC |-> 0]
          ELSE [err |-> "PWM_ERR_NONE",
                timRegARR |-> overflow2,
                timRegPSC |-> UIntWrap(UINT16_BITS, prescaler + 65535)]

\* calculateFrequencyRegisters on the whole range of the source frequency:
\* sourceFrequency_hz is the pair of 16-bit halves of the uint32_t,
\* switchingFrequency_hz is below 65536.  When the prescaler converted to
\* uint16_t is 0, UIntRoundingDivide is called with divisor 0: its
\* assert(divisor != 0u) fails, and in a build with NDEBUG the division by
\* zero is undefined; err is then "divide_by_zero".
calculateFrequencyRegisters32(switchingFrequency_hz, sourceFrequency_hz, maxOverflow) ==
    IF (switchingFrequency_hz = 0) \/ (sourceFrequency_hz = <<0, 0>>) \/ (maxOverflow = 0)
    THEN [err |-> "PWM_ERR_INVALID_PARAM", timRegARR |-> 0, timRegPSC |-> 0]
    ELSE
      LET cycles    == UInt32Divide(sourceFrequency_hz, switchingFrequency_hz)
          overflow  == IF UInt32Less(cycles, <<0, maxOverflow>>)
                       THEN cycles[2] ELSE maxOverflow
          prescaler == UIntCeilingDivide32(cycles, overflow)[2]
          overflow2 == UIntRoundingDivide32(cycles, prescaler)[2]
      IN  IF overflow < DUTY_CYCLE_MAX_TENTH_PCT
          THEN [err |-> "PWM_ERR_INVALID_PARAM", timRegARR |-> 0, timRegPSC |-> 0]
          ELSE IF prescaler = 0
          THEN [err |-> "divide_by_zero", timRegARR |-> 0, timRegPSC |-> 0]
          ELSE [err |-> "PWM_ERR_NONE",
                timRegARR |-> overflow2,
                timRegPSC |-> UIntWrap(UINT16_BITS, prescaler + 65535)]

\* A calculateCCRx that truncates the quotient
calculateCCRx_Truncates(dutyCycle_tenthPct, timRegARR) ==
    UIntWrap(UINT32_BITS, dutyCycle_tenthPct * timRegARR) \div DUTY_CYCLE_MAX_TENTH_PCT

calculateCCRx(dutyCycle_tenthPct, timRegARR) ==
    IF timRegARR = 0 THEN timRegARR
    ELSE UIntRoundingDivide(UIntWrap(UINT32_BITS, dutyCycle_tenthPct * timRegARR),
                            DUTY_CYCLE_MAX_TENTH_PCT)

\* A calculateDutyCycle_tenthPct that scales to percent
calculateDutyCycle_tenthPct_Percent(timRegARR, timRegCCRx) ==
    IF timRegARR = 0
    THEN timRegARR
    ELSE UIntRoundingDivide(UIntWrap(UINT32_BITS, timRegCCRx * 100), timRegARR)

calculateDutyCycle_tenthPct(timRegARR, timRegCCRx) ==
    IF timRegARR = 0 THEN UIntWrap(UINT16_BITS, timRegARR)
    ELSE UIntWrap(UINT16_BITS,
                  UIntRoundingDivide(UIntWrap(UINT32_BITS,
                                              timRegCCRx * DUTY_CYCLE_MAX_TENTH_PCT),
                                     timRegARR))

\* A calculateSwitchingFrequency_hz that leaves the prescaler out
calculateSwitchingFrequency_hz_IgnoresPrescaler(sourceFrequency_hz, prescaler, overflow) ==
    UIntRoundingDivide(sourceFrequency_hz, overflow)

calculateSwitchingFrequency_hz(sourceFrequency_hz, prescaler, overflow) ==
    UIntRoundingDivide(sourceFrequency_hz, UIntWrap(UINT32_BITS, prescaler * overflow))

\* A PWM_Init that sets the state to Stopped on every success
PWM_Init_AlwaysStopped(w, tp, ch, t, switchingFrequency_hz, dutyCycle_tenthPct, busy) ==
    LET registers  == calculateFrequencyRegisters(switchingFrequency_hz,
                                                  Timer_GetClockFrequency_hz(tp),
                                                  TIM_REG_ARR_MAX)
        duty       == limitDutyCycle_tenthPct(dutyCycle_tenthPct)
        timRegCCRx == calculateCCRx(duty, registers.timRegARR)
        acq        == Timer_AcquireMutex(w.mutex, t, busy)
        rel        == Timer_ReleaseMutex(acq.m, t)
    IN  IF registers.err /= "PWM_ERR_NONE"
        THEN [w |-> w, ret |-> registers.err]
        ELSE IF acq.ok = FALSE
        THEN [w |-> w, ret |-> "PWM_ERR_RESOURCE_BLOCKED"]
        ELSE [w |-> [w EXCEPT !.PSC = registers.timRegPSC,
                              !.ARR = registers.timRegARR,
                              !.CCR[ch] = timRegCCRx,
                              !.mutex = rel.m,
                              !.pwmState[ch] = "STATE_STOPPED"],
              ret |-> "PWM_ERR_NONE"]

PWM_Init(w, tp, ch, t, switchingFrequency_hz, dutyCycle_tenthPct, busy) ==
    LET registers  == calculateFrequencyRegisters(switchingFrequency_hz,
                                                  Timer_GetClockFrequency_hz(tp),
                                                  TIM_REG_ARR_MAX)
        duty       == limitDutyCycle_tenthPct(dutyCycle_tenthPct)
        timRegCCRx == calculateCCRx(duty, registers.timRegARR)
        acq        == Timer_AcquireMutex(w.mutex, t, busy)
        rel        == Timer_ReleaseMutex(acq.m, t)
    IN  IF registers.err /= "PWM_ERR_NONE"
        THEN [w |-> w, ret |-> registers.err]
        ELSE IF acq.ok = FALSE
        THEN [w |-> w, ret |-> "PWM_ERR_RESOURCE_BLOCKED"]
        ELSE [w |-> [w EXCEPT !.PSC = registers.timRegPSC,
                              !.ARR = registers.timRegARR,
                              !.CCR[ch] = timRegCCRx,
                              !.mutex = rel.m,
                              !.pwmState[ch] =
                                  IF @ = "STATE_UNINITIALIZED" THEN "STATE_STOPPED" ELSE @],
              ret |-> "PWM_ERR_NONE"]

\* PWM_Start without its check for a channel that is already started
PWM_Start_NoStartedCheck(w, ch, t, busy, hal) ==
    LET acq == Timer_AcquireMutex(w.mutex, t, busy)
        rel == Timer_ReleaseMutex(acq.m, t)
    IN  IF w.pwmState[ch] = "STATE_UNINITIALIZED"
        THEN [w |-> w, ret |-> "PWM_ERR_UNINITIALIZED"]
        ELSE IF acq.ok = FALSE
        THEN [w |-> w, ret |-> "PWM_ERR_RESOURCE_BLOCKED"]
        ELSE IF hal /= "HAL_OK"
        THEN [w |-> [w EXCEPT !.mutex = rel.m], ret |-> "PWM_ERR_HAL"]
        ELSE [w |-> [w EXCEPT !.chEn = @ \cup {ch},
                              !.mutex = rel.m,
                              !.pwmState[ch] = "STATE_STARTED"],
              ret |-> "PWM_ERR_NONE"]

PWM_Start(w, ch, t, busy, hal) ==
    LET acq == Timer_AcquireMutex(w.mutex, t, busy)
        rel == Timer_ReleaseMutex(acq.m, t)
    IN  IF w.pwmState[ch] = "STATE_UNINITIALIZED"
        THEN [w |-> w, ret |-> "PWM_ERR_UNINITIALIZED"]
        ELSE IF w.pwmState[ch] = "STATE_STARTED"
        THEN [w |-> w, ret |-> "PWM_ERR_STARTED"]
        ELSE IF acq.ok = FALSE
        THEN [w |-> w, ret |-> "PWM_ERR_RESOURCE_BLOCKED"]
        ELSE IF hal /= "HAL_OK"
        THEN [w |-> [w EXCEPT !.mutex = rel.m], ret |-> "PWM_ERR_HAL"]
        ELSE [w |-> [w EXCEPT !.chEn = @ \cup {ch},
                              !.mutex = rel.m,
                              !.pwmState[ch] = "STATE_STARTED"],
              ret |-> "PWM_ERR_NONE"]

PWM_Stop(w, ch, t, busy, hal) ==
    LET acq == Timer_AcquireMutex(w.mutex, t, busy)
        rel == Timer_ReleaseMutex(acq.m, t)
    IN  IF w.pwmState[ch] = "STATE_UNINITIALIZED"
        THEN [w |-> w, ret |-> "PWM_ERR_UNINITIALIZED"]
        ELSE IF w.pwmState[ch] = "STATE_STARTED"
        THEN [w |-> w, ret |-> "PWM_ERR_STOPPED"]
        ELSE IF acq.ok = FALSE
        THEN [w |-> w, ret |-> "PWM_ERR_RESOURCE_BLOCKED"]
        ELSE IF hal /= "HAL_OK"
        THEN [w |-> [w EXCEPT !.mutex = rel.m], ret |-> "PWM_ERR_HAL"]
        ELSE [w |-> [w EXCEPT !.chEn = @ \ {ch},
                              !.mutex = rel.m,
                              !.pwmState[ch] = "STATE_STOPPED"],
              ret |-> "PWM_ERR_NONE"]

\* A PWM_GetSwitchingFrequency_hz without the test of the state
PWM_GetSwitchingFrequency_hz_NoStateCheck(w, tp, ch, t, busy) ==
    LET acq == Timer_AcquireMutex(w.mutex, t, busy)
        rel == Timer_ReleaseMutex(acq.m, t)
    IN  IF acq.ok = FALSE
        THEN [w |-> w, ret |-> 0]
        ELSE [w |-> [w EXCEPT !.mutex = rel.m],
              ret |-> calculateSwitchingFrequency_hz(Timer_GetClockFrequency_hz(tp),
                                                     w.PSC + 1,
                                                     UIntWrap(UINT16_BITS, w.ARR))]

\* PWM_GetSwitchingFrequency_hz: the prescaler is Timer_GetPrescaler
\* (TIM.PSC + 1), the overflow TIM.ARR passed as a uint16_t.
PWM_GetSwitchingFrequency_hz(w, tp, ch, t, busy) ==
    LET acq == Timer_AcquireMutex(w.mutex, t, busy)
        rel == Timer_ReleaseMutex(acq.m, t)
    IN  IF w.pwmState[ch] = "STATE_UNINITIALIZED"
        THEN [w |-> w, ret |-> 0]
        ELSE IF acq.ok = FALSE
        THEN [w |-> w, ret |-> 0]
        ELSE [w |-> [w EXCEPT !.mutex = rel.m],
              ret |-> calculateSwitchingFrequency_hz(Timer_GetClockFrequency_hz(tp),
                                                     w.PSC + 1,
                                                     UIntWrap(UINT16_BITS, w.ARR))]

PWM_GetDutyCycle_tenthPct(w, ch, t, busy) ==
    LET acq == Timer_AcquireMutex(w.mutex, t, busy)
        rel == Timer_ReleaseMutex(acq.m, t)
    IN  IF w.pwmState[ch] = "STATE_UNINITIALIZED"
        THEN [w |-> w, ret |-> 0]
        ELSE IF acq.ok = FALSE
        THEN [w |-> w, ret |-> 0]
        ELSE [w |-> [w EXCEPT !.mutex = rel.m],
              ret |-> calculateDutyCycle_tenthPct(w.ARR, w.CCR[ch])]

\* PWM_SetDutyCycle that writes the compare register before it looks at the
\* result of the acquisition
PWM_SetDutyCycle_WriteBeforeAcquire(w, ch, t, dutyCycle_tenthPct, busy) ==
    LET duty      == limitDutyCycle_tenthPct(dutyCycle_tenthPct)
        acq       == Timer_AcquireMutex(w.mutex, t, busy)
        rel       == Timer_ReleaseMutex(acq.m, t)
        timRegCCR == IF duty > DUTY_CYCLE_MIN_TENTH_PCT
                     THEN (IF duty < DUTY_CYCLE_MAX_TENTH_PCT
                           THEN calculateCCRx(duty, w.ARR)
                           ELSE w.ARR)
                     ELSE 0
    IN  IF w.pwmState[ch] = "STATE_UNINITIALIZED"
        THEN [w |-> w, ret |-> "PWM_ERR_UNINITIALIZED"]
        ELSE IF acq.ok = FALSE
        THEN [w |-> [w EXCEPT !.CCR[ch] = timRegCCR], ret |-> "PWM_ERR_RESOURCE_BLOCKED"]
        ELSE [w |-> [w EXCEPT !.CCR[ch] = timRegCCR, !.mutex = rel.m],
              ret |-> "PWM_ERR_NONE"]

\* A PWM_SetDutyCycle that acquires the lock before it tests the state
PWM_SetDutyCycle_AcquireFirst(w, ch, t, dutyCycle_tenthPct, busy) ==
    LET duty      == limitDutyCycle_tenthPct(dutyCycle_tenthPct)
        acq       == Timer_AcquireMutex(w.mutex, t, busy)
        rel       == Timer_ReleaseMutex(acq.m, t)
        timRegCCR == IF duty > DUTY_CYCLE_MIN_TENTH_PCT
                     THEN (IF duty < DUTY_CYCLE_MAX_TENTH_PCT
                           THEN calculateCCRx(duty, w.ARR)
                           ELSE w.ARR)
                     ELSE 0
    IN  IF acq.ok = FALSE
        THEN [w |-> w, ret |-> "PWM_ERR_RESOURCE_BLOCKED"]
        ELSE IF w.pwmState[ch] = "STATE_UNINITIALIZED"
        THEN [w |-> [w EXCEPT !.mutex = rel.m], ret |-> "PWM_ERR_UNINITIALIZED"]
        ELSE [w |-> [w EXCEPT !.CCR[ch] = timRegCCR, !.mutex = rel.m],
              ret |-> "PWM_ERR_NONE"]

PWM_SetDutyCycle(w, ch, t, dutyCycle_tenthPct, busy) ==
    LET duty      == limitDutyCycle_tenthPct(dutyCycle_tenthPct)
        acq       == Timer_AcquireMutex(w.mutex, t, busy)
        rel       == Timer_ReleaseMutex(acq.m, t)
        timRegARR == w.ARR
        timRegCCR == IF duty > DUTY_CYCLE_MIN_TENTH_PCT
                     THEN (IF duty < DUTY_CYCLE_MAX_TENTH_PCT
                           THEN calculateCCRx(duty, timRegARR)
                           ELSE timRegARR)
                     ELSE 0
    IN  IF w.pwmState[ch] = "STATE_UNINITIALIZED"
        THEN [w |-> w, ret |-> "PWM_ERR_UNINITIALIZED"]
        ELSE IF acq.ok = FALSE
        THEN [w |-> w, ret |-> "PWM_ERR_RESOURCE_BLOCKED"]
        ELSE [w |-> [w EXCEPT !.CCR[ch] = timRegCCR, !.mutex = rel.m],
              ret |-> "PWM_ERR_NONE"]

PWM_SetHigh(w, ch, t, busy) == PWM_SetDutyCycle(w, ch, t, DUTY_CYCLE_MAX_TENTH_PCT, busy)

PWM_SetLow(w, ch, t, busy) == PWM_SetDutyCycle(w, ch, t, DUTY_CYCLE_MIN_TENTH_PCT, busy)

(***************************************************************************)
(* Encoder.c                                                               *)
(***************************************************************************)

\* (uint16_t)count of an int16_t count
CastUInt16(count) == IF count < 0 THEN count + Pow2(UINT16_BITS) ELSE count

\* The counter register value returned without the conversion to int16_t.
CastInt16_KeepsUnsigned(x) == UIntWrap(UINT16_BITS, x)

\* (int16_t)x of a counter register value
CastInt16(x) ==
    LET u == UIntWrap(UINT16_BITS, x)
    IN  IF u >= Pow2(UINT16_BITS - 1) THEN u - Pow2(UINT16_BITS) ELSE u

Encoder_Start(w, t, busy, hal) ==
    LET acq == Mutex_Acquire(w.mutex, t, busy)
        rel == Mutex_Release(acq.m, t)
    IN  IF acq.ok = FALSE
        THEN [w |-> w, ret |-> "void"]
        ELSE [w |-> [w EXCEPT !.encEn = IF hal = "HAL_OK" THEN TRUE ELSE @,
                              !.mutex = rel.m],
              ret |-> "void"]

Encoder_Stop(w, t, busy, hal) ==
    LET acq == Mutex_Acquire(w.mutex, t, busy)
        rel == Mutex_Release(acq.m, t)
    IN  IF acq.ok = FALSE
        THEN [w |-> w, ret |-> "void"]
        ELSE [w |-> [w EXCEPT !.encEn = IF hal = "HAL_OK" THEN FALSE ELSE @,
                              !.mutex = rel.m],
              ret |-> "void"]

\* Encoder_GetMaxCount returns before the Mutex_Release that follows the
\* return statement.
Encoder_GetMaxCount(w, t, period, busy) ==
    LET acq == Mutex_Acquire(w.mutex, t, busy)
    IN  IF acq.ok = FALSE
        THEN [w |-> w, ret |-> 0]
        ELSE [w |-> [w EXCEPT !.mutex = acq.m], ret |-> period]

\* An Encoder_GetCounter that takes the timer lock like the other accessors
\* and gives up with 0 when the lock is taken.
Encoder_GetCounter_Locking(w) == IF w.mutex.owner /= "none" THEN 0 ELSE CastInt16(w.CNT)

\* Encoder_GetCounter reads the counter register without Mutex_Acquire.
Encoder_GetCounter(w) == CastInt16(w.CNT)

\* What unsignedCount % maxCount leaves in unsignedCount when maxCount is 0
\* and the division does not trap: the Cortex-M33 UDIV yields quotient 0, so
\* the remainder computed from it is the dividend.
ModByZeroValue(unsignedCount) == unsignedCount

\* Encoder_SetCounter.  busy1 answers the acquire inside Encoder_GetMaxCount,
\* busy2 the acquire before the counter write; div0 is what a division by
\* zero does in this build: "trap" (a fault) or "value".
Encoder_SetCounter(w, t, period, count, busy1, busy2, div0) ==
    LET unsignedCount == CastUInt16(count)
        gmc           == Encoder_GetMaxCount(w, t, period, busy1)
        maxCount      == gmc.ret
        divByZero     == (unsignedCount > maxCount) /\ (maxCount = 0)
        reduced       == IF unsignedCount > maxCount
                         THEN (IF maxCount = 0
                               THEN ModByZeroValue(unsignedCount)
                               ELSE unsignedCount % maxCount)
                         ELSE unsignedCount
        acq           == Mutex_Acquire(gmc.w.mutex, t, busy2)
        rel           == Mutex_Release(acq.m, t)
    IN  IF divByZero /\ (div0 = "trap")
        THEN [w |-> gmc.w, ret |-> "void", fault |-> TRUE]
        ELSE IF acq.ok = FALSE
        THEN [w |-> gmc.w, ret |-> "void", fault |-> FALSE]
        ELSE [w |-> [gmc.w EXCEPT !.CNT = reduced, !.mutex = rel.m],
              ret |-> "void", fault |-> FALSE]

Encoder_ResetCounter(w, t, period, busy1, busy2, div0) ==
    Encoder_SetCounter(w, t, period, 0, busy1, busy2, div0)

\* Encoder.c with USE_CUSTOM_HAL_INIT: the revision that takes no lock and
\* configures the TIM and its pins itself.  gi is the set of pins
\* HAL_GPIO_Init has configured, each with its port and alternate function;
\* a pin mask is the set of its pin numbers.
MAX_FILTER_VALUE == 15

configGPIO(gi, gpioHandle, gpioPinMask, altFunctionSelection) ==
    IF gpioHandle \in {"GPIOA", "GPIOB", "GPIOC", "GPIOD", "GPIOE"}
    THEN [ok |-> TRUE,
          gi |-> {c \in gi : ~(c[1] = gpioHandle /\ c[2] \in gpioPinMask)}
                     \cup {<<gpioHandle, p, altFunctionSelection>> : p \in gpioPinMask}]
    ELSE [ok |-> FALSE, gi |-> gi]

\* mspInit; g is self->gpio, g[1] for channel 1 and g[2] for channel 2.
mspInit(gi, tp, g) ==
    LET altFunctionSelection ==
            CASE tp = "TIM1" -> "GPIO_AF1_TIM1"
              [] tp = "TIM2" -> "GPIO_AF1_TIM2"
              [] tp = "TIM3" -> "GPIO_AF2_TIM3"
              [] tp = "TIM4" -> "GPIO_AF2_TIM4"
              [] tp = "TIM5" -> "GPIO_AF2_TIM5"
              [] tp = "TIM8" -> "GPIO_AF3_TIM8"
              [] OTHER       -> "none"
        both   == configGPIO(gi, g[1].portHandle, g[1].pin \cup g[2].pin, altFunctionSelection)
        first  == configGPIO(gi, g[1].portHandle, g[1].pin, altFunctionSelection)
        second == configGPIO(first.gi, g[1].portHandle, g[2].pin, altFunctionSelection)
    IN  IF altFunctionSelection = "none" THEN [ok |-> FALSE, gi |-> gi]
        ELSE IF g[1].portHandle = g[2].portHandle THEN both
        ELSE IF first.ok = FALSE THEN first
        ELSE second

\* Encoder_Init.  period is timHandle->Init.Period; hal and halMaster are
\* the results of HAL_TIM_Encoder_Init and of
\* HAL_TIMEx_MasterConfigSynchronization.  ret is "abort" when
\* assert(maxCount != 0u) fails.
Encoder_Init(period, gi, tp, g, maxCount, filter, nd, hal, halMaster) ==
    LET msp == mspInit(gi, tp, g)
        set == [period |-> maxCount, gi |-> msp.gi,
                filter |-> IF filter > MAX_FILTER_VALUE THEN MAX_FILTER_VALUE ELSE filter]
    IN  IF (nd = FALSE) /\ (maxCount = 0)
        THEN [period |-> period, gi |-> gi, filter |-> filter, ret |-> "abort"]
        ELSE IF msp.ok = FALSE THEN set @@ [ret |-> "false"]
        ELSE IF hal /= "HAL_OK" THEN set @@ [ret |-> "false"]
        ELSE IF halMaster /= "HAL_OK" THEN set @@ [ret |-> "false"]
        ELSE set @@ [ret |-> "true"]

(***************************************************************************)
(* DRV8870.c                                                               *)
(*                                                                         *)
(* The DRV8870 struct holds the PWM structs of its two input lines; the    *)
(* application builds it on channels 0 and 1 of the Timer.                 *)
(* w.drvState is its state field.                                          *)
(***************************************************************************)

DRV8870_Direction_t == {"DRV8870_DIRECTION_STOPPED", "DRV8870_DIRECTION_COAST",
                        "DRV8870_DIRECTION_FORWARD", "DRV8870_DIRECTION_REVERSE"}

DRIVE_STRENGTH_MIN_TENTH_PCT == 0
DRIVE_STRENGTH_MAX_TENTH_PCT == 1000
DUTY_CYCLE_STOPPED_TENTH_PCT == 1000
DUTY_CYCLE_COAST_TENTH_PCT == 0

\* The channels of pwmIN0 and pwmIN1
channelIN0 == TIMER_CHANNEL_1
channelIN1 == TIMER_CHANNEL_2

\* What PWMErrMap[PWM_ERR_HAL] reads.  The initialiser of the array has no
\* entry for PWM_ERR_HAL: the read yields 0, DRV8870_ERR_NONE, when the
\* enumerator lies inside the array, and whatever follows the array in
\* memory ("unmapped" stands for a value other than 0) when it lies past
\* its end.
PWMErrMapHoles == {"DRV8870_ERR_NONE", "unmapped"}

PWMErrMap(pwmErr, hole) ==
    CASE pwmErr = "PWM_ERR_NONE"             -> "DRV8870_ERR_NONE"
      [] pwmErr = "PWM_ERR_NULL_PARAM"       -> "DRV8870_ERR_NULL_PARAM"
      [] pwmErr = "PWM_ERR_INVALID_PARAM"    -> "DRV8870_ERR_INVALID_PARAM"
      [] pwmErr = "PWM_ERR_RESOURCE_BLOCKED" -> "DRV8870_ERR_RESOURCE_BLOCKED"
      [] pwmErr = "PWM_ERR_UNINITIALIZED"    -> "DRV8870_ERR_PWM_INIT"
      [] pwmErr = "PWM_ERR_STARTED"          -> "DRV8870_ERR_PWM_STATE"
      [] pwmErr = "PWM_ERR_STOPPED"          -> "DRV8870_ERR_PWM_STATE"
      [] OTHER                               -> hole

limitStrength_tenthPct(strength_tenthPct) ==
    IF strength_tenthPct > DRIVE_STRENGTH_MAX_TENTH_PCT
    THEN DRIVE_STRENGTH_MAX_TENTH_PCT
    ELSE strength_tenthPct

\* A conversion that returns the limited strength itself
convertStrengthToDutyCycle_NoComplement(strength_tenthPct) ==
    limitStrength_tenthPct(strength_tenthPct)

convertStrengthToDutyCycle(strength_tenthPct) ==
    DRIVE_STRENGTH_MAX_TENTH_PCT - limitStrength_tenthPct(strength_tenthPct)

calculateDutyCycles(direction, strength_tenthPct) ==
    LET dutyCycle == convertStrengthToDutyCycle(strength_tenthPct)
    IN  IF direction = "DRV8870_DIRECTION_COAST"
        THEN [in0_tenthPct |-> DUTY_CYCLE_COAST_TENTH_PCT,
              in1_tenthPct |-> DUTY_CYCLE_COAST_TENTH_PCT]
        ELSE IF (direction = "DRV8870_DIRECTION_STOPPED") \/
                (strength_tenthPct = DRIVE_STRENGTH_MIN_TENTH_PCT)
        THEN [in0_tenthPct |-> DUTY_CYCLE_STOPPED_TENTH_PCT,
              in1_tenthPct |-> DUTY_CYCLE_STOPPED_TENTH_PCT]
        ELSE IF direction = "DRV8870_DIRECTION_FORWARD"
        THEN [in0_tenthPct |-> DUTY_CYCLE_STOPPED_TENTH_PCT,
              in1_tenthPct |-> dutyCycle]
        ELSE [in0_tenthPct |-> dutyCycle,
              in1_tenthPct |-> DUTY_CYCLE_STOPPED_TENTH_PCT]

\* DRV8870_Init.  busy[i] answers the acquisition of the i-th PWM call,
\* hal0 and hal1 are the results of the two HAL starts.
DRV8870_Init(w, tp, t, pwmFrequency_hz, busy, hal0, hal1, hole) ==
    LET dutyCycles == calculateDutyCycles("DRV8870_DIRECTION_STOPPED",
                                          DRIVE_STRENGTH_MIN_TENTH_PCT)
        init0  == PWM_Init(w, tp, channelIN0, t, pwmFrequency_hz,
                           dutyCycles.in0_tenthPct, busy[1])
        init1  == PWM_Init(init0.w, tp, channelIN1, t, pwmFrequency_hz,
                           dutyCycles.in1_tenthPct, busy[2])
        start0 == PWM_Start(init1.w, channelIN0, t, busy[3], hal0)
        start1 == PWM_Start(start0.w, channelIN1, t, busy[4], hal1)
    IN  IF PWMErrMap(init0.ret, hole) /= "DRV8870_ERR_NONE"
        THEN [w |-> init0.w, ret |-> PWMErrMap(init0.ret, hole)]
        ELSE IF PWMErrMap(init1.ret, hole) /= "DRV8870_ERR_NONE"
        THEN [w |-> init1.w, ret |-> PWMErrMap(init1.ret, hole)]
        ELSE IF PWMErrMap(start0.ret, hole) /= "DRV8870_ERR_NONE"
        THEN [w |-> start0.w, ret |-> PWMErrMap(start0.ret, hole)]
        ELSE IF PWMErrMap(start1.ret, hole) /= "DRV8870_ERR_NONE"
        THEN [w |-> start1.w, ret |-> PWMErrMap(start1.ret, hole)]
        ELSE [w |-> [start1.w EXCEPT !.drvState = "STATE_DRIVING"],
              ret |-> "DRV8870_ERR_NONE"]

\* A DRV8870_Drive that changes the duty cycle of IN1 before that of IN0
DRV8870_Drive_IN1First(w, t, direction, strength_tenthPct, busy, hole) ==
    LET dutyCycles == calculateDutyCycles(direction, strength_tenthPct)
        set1 == PWM_SetDutyCycle(w, channelIN1, t, dutyCycles.in1_tenthPct, busy[1])
        set0 == PWM_SetDutyCycle(set1.w, channelIN0, t, dutyCycles.in0_tenthPct, busy[2])
    IN  IF w.drvState /= "STATE_DRIVING"
        THEN [w |-> w, ret |-> "DRV8870_ERR_UNINITIALIZED"]
        ELSE IF PWMErrMap(set1.ret, hole) /= "DRV8870_ERR_NONE"
        THEN [w |-> set1.w, ret |-> PWMErrMap(set1.ret, hole)]
        ELSE IF PWMErrMap(set0.ret, hole) /= "DRV8870_ERR_NONE"
        THEN [w |-> set0.w, ret |-> PWMErrMap(set0.ret, hole)]
        ELSE [w |-> set0.w, ret |-> "DRV8870_ERR_NONE"]

DRV8870_Drive(w, t, direction, strength_tenthPct, busy, hole) ==
    LET dutyCycles == calculateDutyCycles(direction, strength_tenthPct)
        set0 == PWM_SetDutyCycle(w, channelIN0, t, dutyCycles.in0_tenthPct, busy[1])
        set1 == PWM_SetDutyCycle(set0.w, channelIN1, t, dutyCycles.in1_tenthPct, busy[2])
    IN  IF w.drvState /= "STATE_DRIVING"
        THEN [w |-> w, ret |-> "DRV8870_ERR_UNINITIALIZED"]
        ELSE IF PWMErrMap(set0.ret, hole) /= "DRV8870_ERR_NONE"
        THEN [w |-> set0.w, ret |-> PWMErrMap(set0.ret, hole)]
        ELSE IF PWMErrMap(set1.ret, hole) /= "DRV8870_ERR_NONE"
        THEN [w |-> set1.w, ret |-> PWMErrMap(set1.ret, hole)]
        ELSE [w |-> set1.w, ret |-> "DRV8870_ERR_NONE"]

DRV8870_Brake(w, t, busy, hole) ==
    DRV8870_Drive(w, t, "DRV8870_DIRECTION_COAST", DRIVE_STRENGTH_MIN_TENTH_PCT, busy, hole)

DRV8870_Coast(w, t, busy, hole) ==
    DRV8870_Drive(w, t, "DRV8870_DIRECTION_STOPPED", DRIVE_STRENGTH_MIN_TENTH_PCT, busy, hole)

(***************************************************************************)
(* DIO_IRQ.c                                                               *)
(*                                                                         *)
(* d is the DIO_IRQ singleton self: d.configs[pin] is the EXTIConfig_t of  *)
(* the pin, d.mutex its Mutex and d.initialized its flag; d.build tells    *)
(* whether DIO_IRQ_MUTEX is defined ("rtos") or the Mutex is the flag of   *)
(* a build without CMSIS-RTOS2 ("flag").                                   *)
(***************************************************************************)

NUM_EXTI == 16

\* static DIO_IRQ self = { 0 }: in the RTOS build the zeroed Mutex has a
\* NULL mutexID.
DIO_IRQ_Zero(build) ==
    [configs     |-> [pin \in 0 .. NUM_EXTI - 1 |-> [callback |-> "NULL", enable |-> FALSE]],
     mutex       |-> Mutex_ctor(IF build = "rtos" THEN "null_id" ELSE "flag"),
     initialized |-> FALSE,
     build       |-> build]

\* DIO_IRQ_Init; osNew is FALSE when osMutexNew returns NULL.
DIO_IRQ_Init(d, osNew) ==
    IF d.initialized
    THEN [d |-> d, ret |-> "DIO_IRQ_ERR_NONE"]
    ELSE [d |-> [d EXCEPT !.mutex = Mutex_ctor(IF d.build = "flag" THEN "flag"
                                               ELSE IF osNew THEN "rtos" ELSE "null_id"),
                          !.initialized = TRUE],
          ret |-> "DIO_IRQ_ERR_NONE"]

\* A DIO_IRQ_Register that stores the callback whether or not the pin has one
DIO_IRQ_Register_Overwrites(d, t, pin, callback, busy) ==
    LET acq == Mutex_Acquire(d.mutex, t, busy)
        rel == Mutex_Release(acq.m, t)
    IN  IF d.initialized = FALSE
        THEN [d |-> d, ret |-> "DIO_IRQ_ERR_UNINITIALIZED"]
        ELSE IF pin >= NUM_EXTI
        THEN [d |-> d, ret |-> "DIO_IRQ_ERR_INVALID_PARAM"]
        ELSE IF acq.ok = FALSE
        THEN [d |-> d, ret |-> "DIO_IRQ_ERR_RESOURCE_BLOCKED"]
        ELSE [d |-> [d EXCEPT !.configs[pin] = [callback |-> callback, enable |-> TRUE],
                              !.mutex = rel.m],
              ret |-> "DIO_IRQ_ERR_NONE"]

DIO_IRQ_Register(d, t, pin, callback, busy) ==
    LET acq == Mutex_Acquire(d.mutex, t, busy)
        rel == Mutex_Release(acq.m, t)
    IN  IF d.initialized = FALSE
        THEN [d |-> d, ret |-> "DIO_IRQ_ERR_UNINITIALIZED"]
        ELSE IF pin >= NUM_EXTI
        THEN [d |-> d, ret |-> "DIO_IRQ_ERR_INVALID_PARAM"]
        ELSE IF acq.ok = FALSE
        THEN [d |-> d, ret |-> "DIO_IRQ_ERR_RESOURCE_BLOCKED"]
        ELSE IF d.configs[pin].callback /= "NULL"
        THEN [d |-> [d EXCEPT !.mutex = rel.m], ret |-> "DIO_IRQ_ERR_REGISTERED"]
        ELSE [d |-> [d EXCEPT !.configs[pin] = [callback |-> callback, enable |-> TRUE],
                              !.mutex = rel.m],
              ret |-> "DIO_IRQ_ERR_NONE"]

DIO_IRQ_Enable(d, t, pin, enable, busy) ==
    LET acq == Mutex_Acquire(d.mutex, t, busy)
        rel == Mutex_Release(acq.m, t)
    IN  IF pin >= NUM_EXTI
        THEN [d |-> d, ret |-> "DIO_IRQ_ERR_INVALID_PARAM"]
        ELSE IF acq.ok = FALSE
        THEN [d |-> d, ret |-> "DIO_IRQ_ERR_RESOURCE_BLOCKED"]
        ELSE IF d.configs[pin].callback = "NULL"
        THEN [d |-> [d EXCEPT !.mutex = rel.m], ret |-> "DIO_IRQ_ERR_UNREGISTERED"]
        ELSE [d |-> [d EXCEPT !.configs[pin].enable = enable, !.mutex = rel.m],
              ret |-> "DIO_IRQ_ERR_NONE"]

\* DIO_IRQ_IsEnabled returns a bool: the DIO_IRQ_ERR_RESOURCE_BLOCKED it
\* returns when the mutex is not acquired is not 0 and converts to true.
DIO_IRQ_IsEnabled(d, t, pin, busy) ==
    LET acq == Mutex_Acquire(d.mutex, t, busy)
        rel == Mutex_Release(acq.m, t)
    IN  IF pin >= NUM_EXTI
        THEN [d |-> d, ret |-> FALSE]
        ELSE IF acq.ok = FALSE
        THEN [d |-> d, ret |-> TRUE]
        ELSE [d |-> [d EXCEPT !.mutex = rel.m], ret |-> d.configs[pin].enable]

(***************************************************************************)
(* The calls of one task, one whole call per step                          *)
(***************************************************************************)

\* Inputs of the calls
Frequencies == {0, 5000}
DutyCycles  == {0, 500, 1001}
Counts      == IF initPeriod = TIM_REG_ARR_MAX THEN {0, 32767, -32768} ELSE {0, 5000, -1}
Periods     == {4096, 65535}
HAL_Status  == {"HAL_OK", "HAL_ERROR"}
Div0Choices == {"trap", "value"}

\* Only an RTOS mutex can be held by a task outside the model.
BusyChoices == IF mutex.kind = "rtos" THEN BOOLEAN ELSE {FALSE}

W == [pwmState |-> pwmState, PSC |-> PSC, ARR |-> ARR, CCR |-> CCR, chEn |-> chEn,
      mutex |-> mutex, CNT |-> CNT, encEn |-> encEn, drvState |-> drvState]

Commit(w) ==
    /\ pwmState' = w.pwmState
    /\ PSC' = w.PSC
    /\ ARR' = w.ARR
    /\ CCR' = w.CCR
    /\ chEn' = w.chEn
    /\ mutex' = w.mutex
    /\ CNT' = w.CNT
    /\ encEn' = w.encEn
    /\ drvState' = w.drvState

\* The record of a call: ret is the returned error code ("void" for a
\* function without one, "value" for a getter, whose result is val).
Called(op, ch, busy, hal, ret, val) ==
    last' = [op |-> op, ch |-> ch, busy |-> busy, hal |-> hal, ret |-> ret, val |-> val]

NoCall == [op |-> "none", ch |-> TIMER_CHANNEL_1, busy |-> FALSE, hal |-> "HAL_OK",
           ret |-> "none", val |-> 0]

\* No task is inside a function and none has returned from one.
NoFrame == [op |-> "none", ch |-> TIMER_CHANNEL_1, timRegPSC |-> 0, timRegARR |-> 0,
            dutyCycle_tenthPct |-> 0, hal |-> "HAL_OK", ret |-> "none"]

\* No calculation function has been called.
NoCalc == [fn |-> "none", bits |-> UINT32_BITS, a |-> 0, b |-> 0, c |-> 0,
           out |-> 0, out2 |-> 0, err |-> "none"]

\* The encoder of the application is on the pins PA8 and PA9; no pin has
\* been configured by the drivers and the DIO_IRQ singleton is zeroed, in a
\* build with the RTOS mutex.
BoardReset ==
    /\ gpio = <<[portHandle |-> "GPIOA", pin |-> {8}], [portHandle |-> "GPIOA", pin |-> {9}]>>
    /\ gpioInit = {}
    /\ dio = DIO_IRQ_Zero("rtos")

TasksIdle ==
    /\ pc = [t \in Tasks |-> "idle"]
    /\ frame = [t \in Tasks |-> NoFrame]
    /\ hwStarts = [ch \in Channels |-> 0]

TimerFrame == UNCHANGED <<timPtr, channelMode, ndebug, pwmObjs, initPeriod,
                          pc, frame, hwStarts, calc, gpio, gpioInit, dio>>

\* The state an NDEBUG build is in after Timer_ctor on TIM1, PWM_ctor of the
\* channels chs and Encoder_ctor: the TIM registers hold their reset values.
InitDrivers(chs, kinds, periods) ==
    /\ timPtr = "TIM1"
    /\ channelMode = Timer_ctor
    /\ ndebug = TRUE
    /\ aborted = FALSE
    /\ pwmObjs = chs
    /\ pwmState = [ch \in chs |-> "STATE_UNINITIALIZED"]
    /\ PSC = 0
    /\ ARR = TIM_REG_ARR_MAX
    /\ CCR = [ch \in Channels |-> 0]
    /\ chEn = {}
    /\ mutex \in {Mutex_ctor(k) : k \in kinds}
    /\ initPeriod \in periods
    /\ CNT = 0
    /\ encEn = FALSE
    /\ drvState = "STATE_UNINITIALIZED"
    /\ last = NoCall
    /\ TasksIdle
    /\ calc = NoCalc

CallPWM_Init ==
    \E ch \in pwmObjs, f \in Frequencies, d \in DutyCycles, busy \in BusyChoices :
        \E r \in {PWM_Init(W, timPtr, ch, "T1", f, d, busy)} :
            /\ ~aborted
            /\ Commit(r.w)
            /\ Called("PWM_Init", ch, busy, "HAL_OK", r.ret, 0)
            /\ UNCHANGED aborted
            /\ TimerFrame

CallPWM_Start ==
    \E ch \in pwmObjs, busy \in BusyChoices, hal \in HAL_Status :
        \E r \in {PWM_Start(W, ch, "T1", busy, hal)} :
            /\ ~aborted
            /\ Commit(r.w)
            /\ Called("PWM_Start", ch, busy, hal, r.ret, 0)
            /\ UNCHANGED aborted
            /\ TimerFrame

CallPWM_Stop ==
    \E ch \in pwmObjs, busy \in BusyChoices, hal \in HAL_Status :
        \E r \in {PWM_Stop(W, ch, "T1", busy, hal)} :
            /\ ~aborted
            /\ Commit(r.w)
            /\ Called("PWM_Stop", ch, busy, hal, r.ret, 0)
            /\ UNCHANGED aborted
            /\ TimerFrame

CallPWM_SetDutyCycle ==
    \E ch \in pwmObjs, d \in DutyCycles, busy \in BusyChoices :
        \E r \in {PWM_SetDutyCycle(W, ch, "T1", d, busy)} :
            /\ ~aborted
            /\ Commit(r.w)
            /\ Called("PWM_SetDutyCycle", ch, busy, "HAL_OK", r.ret, d)
            /\ UNCHANGED aborted
            /\ TimerFrame

CallPWM_GetDutyCycle_tenthPct ==
    \E ch \in pwmObjs, busy \in BusyChoices :
        \E r \in {PWM_GetDutyCycle_tenthPct(W, ch, "T1", busy)} :
            /\ ~aborted
            /\ Commit(r.w)
            /\ Called("PWM_GetDutyCycle_tenthPct", ch, busy, "HAL_OK", "value", r.ret)
            /\ UNCHANGED aborted
            /\ TimerFrame

CallPWM_GetSwitchingFrequency_hz ==
    \E ch \in pwmObjs, busy \in BusyChoices :
        \E r \in {PWM_GetSwitchingFrequency_hz(W, timPtr, ch, "T1", busy)} :
            /\ ~aborted
            /\ Commit(r.w)
            /\ Called("PWM_GetSwitchingFrequency_hz", ch, busy, "HAL_OK", "value", r.ret)
            /\ UNCHANGED aborted
            /\ TimerFrame

CallEncoder_Start ==
    \E busy \in BusyChoices, hal \in HAL_Status :
        \E r \in {Encoder_Start(W, "T1", busy, hal)} :
            /\ ~aborted
            /\ Commit(r.w)
            /\ Called("Encoder_Start", TIMER_CHANNEL_1, busy, hal, r.ret, 0)
            /\ UNCHANGED aborted
            /\ TimerFrame

CallEncoder_Stop ==
    \E busy \in BusyChoices, hal \in HAL_Status :
        \E r \in {Encoder_Stop(W, "T1", busy, hal)} :
            /\ ~aborted
            /\ Commit(r.w)
            /\ Called("Encoder_Stop", TIMER_CHANNEL_1, busy, hal, r.ret, 0)
            /\ UNCHANGED aborted
            /\ TimerFrame

CallEncoder_GetMaxCount ==
    \E busy \in BusyChoices :
        \E r \in {Encoder_GetMaxCount(W, "T1", initPeriod, busy)} :
            /\ ~aborted
            /\ Commit(r.w)
            /\ Called("Encoder_GetMaxCount", TIMER_CHANNEL_1, busy, "HAL_OK", "value", r.ret)
            /\ UNCHANGED aborted
            /\ TimerFrame

CallEncoder_SetCounter ==
    \E count \in Counts, busy1 \in BusyChoices, busy2 \in BusyChoices,
       div0 \in Div0Choices :
        \E r \in {Encoder_SetCounter(W, "T1", initPeriod, count, busy1, busy2, div0)} :
            /\ ~aborted
            /\ Commit(r.w)
            /\ Called("Encoder_SetCounter", TIMER_CHANNEL_1, busy1 \/ busy2, "HAL_OK",
                      r.ret, count)
            /\ aborted' = r.fault
            /\ TimerFrame

(***************************************************************************)
(* Spec: one task calls the PWM functions of two PWM structs built on the  *)
(* same Timer.                                                             *)
(***************************************************************************)

Init == InitDrivers({TIMER_CHANNEL_1, TIMER_CHANNEL_2}, MutexKinds, {4096}) /\ BoardReset

Next ==
    \/ CallPWM_Init
    \/ CallPWM_Start
    \/ CallPWM_Stop
    \/ CallPWM_SetDutyCycle
    \/ CallPWM_GetDutyCycle_tenthPct
    \/ CallPWM_GetSwitchingFrequency_hz

Spec == Init /\ [][Next]_vars

CallEncoder_GetCounter ==
    /\ ~aborted
    /\ Called("Encoder_GetCounter", TIMER_CHANNEL_1, FALSE, "HAL_OK", "value",
              Encoder_GetCounter(W))
    /\ UNCHANGED <<pwmState, PSC, ARR, CCR, chEn, mutex, CNT, encEn, drvState, aborted>>
    /\ TimerFrame

(***************************************************************************)
(* SpecLock: one task calls the functions of one PWM struct and of an      *)
(* Encoder that share the timer mutex.                                     *)
(***************************************************************************)

InitLock == InitDrivers({TIMER_CHANNEL_1}, MutexKinds, {4096}) /\ BoardReset

NextLock ==
    \/ CallPWM_Init
    \/ CallPWM_Start
    \/ CallPWM_Stop
    \/ CallPWM_SetDutyCycle
    \/ CallPWM_GetDutyCycle_tenthPct
    \/ CallEncoder_Start
    \/ CallEncoder_Stop
    \/ CallEncoder_GetMaxCount
    \/ CallEncoder_SetCounter
    \/ CallEncoder_GetCounter

SpecLock == InitLock /\ [][NextLock]_vars

(***************************************************************************)
(* SpecEnc: one task uses an Encoder whose timer counts over the whole     *)
(* 16-bit range (Init.Period 65535, NULL mutex id) while the quadrature    *)
(* inputs move the counter.                                                *)
(***************************************************************************)

\* The counter is followed this many counts on either side of a value that
\* Encoder_SetCounter can write.
MaxTicks == 3

\* One quadrature edge while the encoder interface is started: the counter
\* counts up or down by one between 0 and the auto-reload value.
TIM_EncoderCount ==
    \E dir \in {"up", "down"} :
        \E next \in {IF dir = "up"
                     THEN (IF CNT = initPeriod THEN 0 ELSE CNT + 1)
                     ELSE (IF CNT = 0 THEN initPeriod ELSE CNT - 1)} :
            /\ ~aborted
            /\ encEn
            /\ \E count \in Counts :
                   \/ UIntWrap(UINT16_BITS, next - CastUInt16(count)) <= MaxTicks
                   \/ UIntWrap(UINT16_BITS, CastUInt16(count) - next) <= MaxTicks
            /\ CNT' = next
            /\ Called("TIM_EncoderCount", TIMER_CHANNEL_1, FALSE, "HAL_OK", dir, CNT)
            /\ UNCHANGED <<pwmState, PSC, ARR, CCR, chEn, mutex, encEn, drvState, aborted>>
            /\ TimerFrame

InitEnc == InitDrivers({TIMER_CHANNEL_1}, {"null_id"}, {TIM_REG_ARR_MAX}) /\ BoardReset

NextEnc ==
    \/ CallEncoder_Start
    \/ CallEncoder_Stop
    \/ CallEncoder_SetCounter
    \/ CallEncoder_GetCounter
    \/ TIM_EncoderCount

SpecEnc == InitEnc /\ [][NextEnc]_vars

(***************************************************************************)
(* SpecCalc: the calculation functions of Helper.c and PWM.c applied to    *)
(* arguments drawn from bounded sets.  A call changes nothing but calc.    *)
(* The functions keep no state, so a behaviour is one call on fresh         *)
(* arguments, followed by the call that takes its result.                  *)
(***************************************************************************)

\* UIntRoundingDivide and UIntCeilingDivide are applied to every dividend
\* and non-zero divisor of an unsigned integer of this width, so that the
\* sum dividend + round wraps for some of them.
WordBits == 6

\* Switching frequencies: zero, those that need a prescaler at 170 MHz (up
\* to 2593 Hz), the application's 5000 Hz, those around 16 kHz, and those
\* up to and past the highest one with 1000 timer cycles at 170 MHz.
CalcFrequencies ==
    (0 .. 50) \cup (2590 .. 2600) \cup {5000} \cup (16120 .. 16130)
        \cup (169000 .. 170010) \cup {200000}

\* Auto-reload values: the smallest and the largest a successful
\* calculateFrequencyRegisters returns, and the two the application's
\* frequencies give.
CalcPeriods == (1000 .. 1015) \cup {34000, 65385} \cup (65520 .. 65535)

Calculated(fn, bits, a, b, c, out, out2, err) ==
    /\ calc' = [fn |-> fn, bits |-> bits, a |-> a, b |-> b, c |-> c,
                out |-> out, out2 |-> out2, err |-> err]
    /\ UNCHANGED <<timPtr, channelMode, ndebug, aborted, pwmObjs, pwmState, PSC, ARR,
                   CCR, chEn, mutex, initPeriod, CNT, encEn, drvState, last, pc,
                   frame, hwStarts, gpio, gpioInit, dio>>

CalcUIntRoundingDivide ==
    /\ calc = NoCalc
    /\ \E dividend \in 0 .. Pow2(WordBits) - 1, divisor \in 1 .. Pow2(WordBits) - 1 :
           Calculated("UIntRoundingDivide", WordBits, dividend, divisor, 0,
                      UIntRoundingDivideW(WordBits, dividend, divisor), 0, "none")

CalcUIntCeilingDivide ==
    /\ calc = NoCalc
    /\ \E dividend \in 0 .. Pow2(WordBits) - 1, divisor \in 1 .. Pow2(WordBits) - 1 :
           Calculated("UIntCeilingDivide", WordBits, dividend, divisor, 0,
                      UIntCeilingDivideW(WordBits, dividend, divisor), 0, "none")

\* out is timRegPSC and out2 is timRegARR.
CalcFrequencyRegisters ==
    /\ calc = NoCalc
    /\ \E switchingFrequency_hz \in CalcFrequencies,
          sourceFrequency_hz \in {0, 1000000, HAL_RCC_GetPCLK2Freq},
          maxOverflow \in {0, 999, DUTY_CYCLE_MAX_TENTH_PCT, TIM_REG_ARR_MAX} :
           \E r \in {calculateFrequencyRegisters(switchingFrequency_hz, sourceFrequency_hz,
                                                 maxOverflow)} :
               Calculated("calculateFrequencyRegisters", UINT32_BITS, switchingFrequency_hz,
                          sourceFrequency_hz, maxOverflow, r.timRegPSC, r.timRegARR, r.err)

\* Source frequencies as pairs of 16-bit halves: zero, one million, the
\* 170 MHz timer clock, 2^31, and those around 65535 * 65535, 65535 * 65536
\* and 2^32 - 1.
CalcSources32 ==
    {<<0, 0>>, <<15, 16960>>, <<2593, 65152>>, <<32768, 0>>}
        \cup {<<65534, lo>> : lo \in 0 .. 2} \cup {<<65534, 65535>>}
        \cup {<<65535, lo>> : lo \in 0 .. 2} \cup {<<65535, 65535>>}

\* a is the switching frequency, b and c are the halves of the source
\* frequency, out is timRegPSC and out2 is timRegARR; the maximum overflow
\* is the one PWM_Init passes.
CalcFrequencyRegisters32 ==
    /\ calc = NoCalc
    /\ \E switchingFrequency_hz \in {0, 1, 2, 3, 100, 5000, 65535},
          sourceFrequency_hz \in CalcSources32 :
           \E r \in {calculateFrequencyRegisters32(switchingFrequency_hz, sourceFrequency_hz,
                                                   TIM_REG_ARR_MAX)} :
               Calculated("calculateFrequencyRegisters32", UINT32_BITS,
                          switchingFrequency_hz, sourceFrequency_hz[1],
                          sourceFrequency_hz[2], r.timRegPSC, r.timRegARR, r.err)

\* b and c are the halves of n and out is the position returned.
CalcRightmostSetBit ==
    /\ calc = NoCalc
    /\ \E n \in {<<0, 0>>, <<0, 1>>, <<0, 2>>, <<0, 3>>, <<0, 6>>, <<0, 40>>,
                 <<0, 32768>>, <<1, 0>>, <<1, 32768>>, <<6, 0>>, <<32768, 0>>,
                 <<65535, 65535>>} :
           Calculated("RightmostSetBit", UINT32_BITS, 0, n[1], n[2],
                      RightmostSetBit(n), 0, "none")

\* The switching frequency of the registers just calculated, as
\* PWM_GetSwitchingFrequency_hz computes it: a is the frequency the registers
\* were calculated for, b the source frequency, c the prescaler (TIM.PSC + 1)
\* and out2 the overflow (TIM.ARR).  The registers are those for the maximum
\* overflow PWM_Init passes, TIM_REG_ARR_MAX.
CalcSwitchingFrequency_hz ==
    /\ calc.fn = "calculateFrequencyRegisters"
    /\ calc.err = "PWM_ERR_NONE"
    /\ calc.c = TIM_REG_ARR_MAX
    /\ Calculated("calculateSwitchingFrequency_hz", UINT32_BITS, calc.a, calc.b,
                  calc.out + 1,
                  calculateSwitchingFrequency_hz(calc.b, calc.out + 1, calc.out2),
                  calc.out2, "none")

CalcCCRx ==
    /\ calc = NoCalc
    /\ \E dutyCycle_tenthPct \in DUTY_CYCLE_MIN_TENTH_PCT .. DUTY_CYCLE_MAX_TENTH_PCT,
          timRegARR \in CalcPeriods :
           Calculated("calculateCCRx", UINT32_BITS, dutyCycle_tenthPct, timRegARR, 0,
                      calculateCCRx(dutyCycle_tenthPct, timRegARR), 0, "none")

\* The duty cycle of the compare value just calculated: a is the duty cycle
\* the compare value was calculated for, b is timRegARR and c is timRegCCRx.
CalcDutyCycle_tenthPct ==
    /\ calc.fn = "calculateCCRx"
    /\ Calculated("calculateDutyCycle_tenthPct", UINT32_BITS, calc.a, calc.b, calc.out,
                  calculateDutyCycle_tenthPct(calc.b, calc.out), 0, "none")

InitCalc == InitDrivers({TIMER_CHANNEL_1}, {"null_id"}, {4096}) /\ BoardReset

NextCalc ==
    \/ CalcUIntRoundingDivide
    \/ CalcUIntCeilingDivide
    \/ CalcFrequencyRegisters
    \/ CalcFrequencyRegisters32
    \/ CalcRightmostSetBit
    \/ CalcSwitchingFrequency_hz
    \/ CalcCCRx
    \/ CalcDutyCycle_tenthPct

SpecCalc == InitCalc /\ [][NextCalc]_vars

(***************************************************************************)
(* SpecDRV: one task drives a DRV8870 built on channels 0 and 1.           *)
(***************************************************************************)

Strengths == {0, 300, 1200}

\* The acquisitions of one driver call: a call returns at the first
\* acquisition that fails, so the answers are told apart by the first
\* acquisition another task blocks (none when k is 0).
BusyAnswers(n) ==
    IF mutex.kind = "rtos"
    THEN {[i \in 1 .. n |-> i = k] : k \in 0 .. n}
    ELSE {[i \in 1 .. n |-> FALSE]}

InitDRV == InitDrivers({channelIN0, channelIN1}, MutexKinds, {4096}) /\ BoardReset

CallDRV8870_Init ==
    \E f \in Frequencies, busy \in BusyAnswers(4), hal0 \in HAL_Status,
       hal1 \in HAL_Status, hole \in PWMErrMapHoles :
        \E r \in {DRV8870_Init(W, timPtr, "T1", f, busy, hal0, hal1, hole)} :
            /\ ~aborted
            /\ Commit(r.w)
            /\ Called("DRV8870_Init", channelIN0, \E i \in 1 .. 4 : busy[i],
                      IF hal0 = "HAL_OK" THEN hal1 ELSE hal0, r.ret, f)
            /\ UNCHANGED aborted
            /\ TimerFrame

CallDRV8870_Drive ==
    \E direction \in DRV8870_Direction_t, strength \in Strengths,
       busy \in BusyAnswers(2) :
        \E r \in {DRV8870_Drive(W, "T1", direction, strength, busy, "DRV8870_ERR_NONE")} :
            /\ ~aborted
            /\ Commit(r.w)
            /\ Called("DRV8870_Drive", channelIN0, \E i \in 1 .. 2 : busy[i],
                      "HAL_OK", r.ret, strength)
            /\ UNCHANGED aborted
            /\ TimerFrame

CallDRV8870_Brake ==
    \E busy \in BusyAnswers(2) :
        \E r \in {DRV8870_Brake(W, "T1", busy, "DRV8870_ERR_NONE")} :
            /\ ~aborted
            /\ Commit(r.w)
            /\ Called("DRV8870_Brake", channelIN0, \E i \in 1 .. 2 : busy[i],
                      "HAL_OK", r.ret, 0)
            /\ UNCHANGED aborted
            /\ TimerFrame

CallDRV8870_Coast ==
    \E busy \in BusyAnswers(2) :
        \E r \in {DRV8870_Coast(W, "T1", busy, "DRV8870_ERR_NONE")} :
            /\ ~aborted
            /\ Commit(r.w)
            /\ Called("DRV8870_Coast", channelIN0, \E i \in 1 .. 2 : busy[i],
                      "HAL_OK", r.ret, 0)
            /\ UNCHANGED aborted
            /\ TimerFrame

NextDRV ==
    \/ CallDRV8870_Init
    \/ CallDRV8870_Drive
    \/ CallDRV8870_Brake
    \/ CallDRV8870_Coast

SpecDRV == InitDRV /\ [][NextDRV]_vars

(***************************************************************************)
(* SpecConc: two tasks call PWM_Init, PWM_Start and PWM_SetDutyCycle on    *)
(* the PWM structs of channels 0 and 1 of one Timer whose Mutex is an RTOS *)
(* mutex.  A step is one access to shared data: the read of self->state    *)
(* at the top of a function, the acquisition of the timer mutex, one       *)
(* register write or HAL call, the release, the write of self->state.      *)
(* pc[t] is "idle" outside a function and names the next access inside.    *)
(***************************************************************************)

ConcFrequencies == {100, 5000}
ConcDutyCycles == {500}

ConcFrame == UNCHANGED <<timPtr, channelMode, ndebug, aborted, pwmObjs, initPeriod,
                         CNT, encEn, drvState, last, calc, gpio, gpioInit, dio>>

\* Task t returns ret from the function op it called on channel ch.
Return(t, op, ch, ret) ==
    /\ pc' = [pc EXCEPT ![t] = "idle"]
    /\ frame' = [frame EXCEPT ![t] = [NoFrame EXCEPT !.op = op, !.ch = ch, !.ret = ret]]

\* Task t holds the timer mutex: it is between a successful
\* Timer_AcquireMutex and the return of the matching Timer_ReleaseMutex.
InCS(t) == pc[t] \in {"psc", "arr", "ccr", "hal", "release"}

\* PWM_Init up to Timer_AcquireMutex: the preliminary calculations
BeginPWM_Init(t) ==
    \E ch \in pwmObjs, f \in ConcFrequencies, d \in ConcDutyCycles :
        LET registers == calculateFrequencyRegisters(f, Timer_GetClockFrequency_hz(timPtr),
                                                     TIM_REG_ARR_MAX)
        IN  /\ pc[t] = "idle"
            /\ IF registers.err /= "PWM_ERR_NONE"
               THEN Return(t, "PWM_Init", ch, registers.err)
               ELSE /\ pc' = [pc EXCEPT ![t] = "acquire"]
                    /\ frame' = [frame EXCEPT ![t] =
                                    [op |-> "PWM_Init", ch |-> ch,
                                     timRegPSC |-> registers.timRegPSC,
                                     timRegARR |-> registers.timRegARR,
                                     dutyCycle_tenthPct |-> limitDutyCycle_tenthPct(d),
                                     hal |-> "HAL_OK", ret |-> "pending"]]
            /\ UNCHANGED <<pwmState, PSC, ARR, CCR, chEn, mutex, hwStarts>>
            /\ ConcFrame

\* PWM_Start up to Timer_AcquireMutex: the two tests of self->state
BeginPWM_Start(t) ==
    \E ch \in pwmObjs :
        /\ pc[t] = "idle"
        /\ IF pwmState[ch] = "STATE_UNINITIALIZED"
           THEN Return(t, "PWM_Start", ch, "PWM_ERR_UNINITIALIZED")
           ELSE IF pwmState[ch] = "STATE_STARTED"
           THEN Return(t, "PWM_Start", ch, "PWM_ERR_STARTED")
           ELSE /\ pc' = [pc EXCEPT ![t] = "acquire"]
                /\ frame' = [frame EXCEPT ![t] =
                                [NoFrame EXCEPT !.op = "PWM_Start", !.ch = ch,
                                                !.ret = "pending"]]
        /\ UNCHANGED <<pwmState, PSC, ARR, CCR, chEn, mutex, hwStarts>>
        /\ ConcFrame

\* PWM_SetDutyCycle up to Timer_AcquireMutex: the test of self->state
BeginPWM_SetDutyCycle(t) ==
    \E ch \in pwmObjs, d \in ConcDutyCycles :
        /\ pc[t] = "idle"
        /\ IF pwmState[ch] = "STATE_UNINITIALIZED"
           THEN Return(t, "PWM_SetDutyCycle", ch, "PWM_ERR_UNINITIALIZED")
           ELSE /\ pc' = [pc EXCEPT ![t] = "acquire"]
                /\ frame' = [frame EXCEPT ![t] =
                                [NoFrame EXCEPT !.op = "PWM_SetDutyCycle", !.ch = ch,
                                                !.dutyCycle_tenthPct =
                                                    limitDutyCycle_tenthPct(d),
                                                !.ret = "pending"]]
        /\ UNCHANGED <<pwmState, PSC, ARR, CCR, chEn, mutex, hwStarts>>
        /\ ConcFrame

\* Timer_AcquireMutex returns: true with the mutex taken, or false when the
\* other task has held the mutex for the whole timeout.
AcquireStep(t) ==
    \E r \in {Timer_AcquireMutex(mutex, t, FALSE)} :
        /\ pc[t] = "acquire"
        /\ mutex' = r.m
        /\ IF r.ok
           THEN /\ pc' = [pc EXCEPT ![t] =
                             CASE frame[t].op = "PWM_Init"  -> "psc"
                               [] frame[t].op = "PWM_Start" -> "hal"
                               [] OTHER                     -> "ccr"]
                /\ UNCHANGED frame
           ELSE Return(t, frame[t].op, frame[t].ch, "PWM_ERR_RESOURCE_BLOCKED")
        /\ UNCHANGED <<pwmState, PSC, ARR, CCR, chEn, hwStarts>>
        /\ ConcFrame

\* __HAL_TIM_SET_PRESCALER in PWM_Init
WritePSC(t) ==
    /\ pc[t] = "psc"
    /\ PSC' = frame[t].timRegPSC
    /\ pc' = [pc EXCEPT ![t] = "arr"]
    /\ UNCHANGED <<pwmState, ARR, CCR, chEn, mutex, frame, hwStarts>>
    /\ ConcFrame

\* A PWM_Init step that leaves TIM.ARR as it is
WriteARR_Skipped(t) ==
    /\ pc[t] = "arr"
    /\ pc' = [pc EXCEPT ![t] = "ccr"]
    /\ UNCHANGED <<pwmState, PSC, ARR, CCR, chEn, mutex, frame, hwStarts>>
    /\ ConcFrame

\* __HAL_TIM_SET_AUTORELOAD in PWM_Init
WriteARR(t) ==
    /\ pc[t] = "arr"
    /\ ARR' = frame[t].timRegARR
    /\ pc' = [pc EXCEPT ![t] = "ccr"]
    /\ UNCHANGED <<pwmState, PSC, CCR, chEn, mutex, frame, hwStarts>>
    /\ ConcFrame

\* A __HAL_TIM_SET_COMPARE step of PWM_SetDutyCycle that takes the largest
\* period instead of the one TIM.ARR holds
WriteCCR_NotFromARR(t) ==
    LET duty == frame[t].dutyCycle_tenthPct
        timRegCCR ==
            IF frame[t].op = "PWM_Init"
            THEN calculateCCRx(duty, frame[t].timRegARR)
            ELSE IF duty > DUTY_CYCLE_MIN_TENTH_PCT
            THEN (IF duty < DUTY_CYCLE_MAX_TENTH_PCT
                  THEN calculateCCRx(duty, TIM_REG_ARR_MAX)
                  ELSE TIM_REG_ARR_MAX)
            ELSE 0
    IN  /\ pc[t] = "ccr"
        /\ CCR' = [CCR EXCEPT ![frame[t].ch] = timRegCCR]
        /\ pc' = [pc EXCEPT ![t] = "release"]
        /\ UNCHANGED <<pwmState, PSC, ARR, chEn, mutex, frame, hwStarts>>
        /\ ConcFrame

\* __HAL_TIM_SET_COMPARE: in PWM_Init of the value computed before the
\* acquisition, in PWM_SetDutyCycle of the value computed from TIM.ARR
WriteCCR(t) ==
    LET duty == frame[t].dutyCycle_tenthPct
        timRegCCR ==
            IF frame[t].op = "PWM_Init"
            THEN calculateCCRx(duty, frame[t].timRegARR)
            ELSE IF duty > DUTY_CYCLE_MIN_TENTH_PCT
            THEN (IF duty < DUTY_CYCLE_MAX_TENTH_PCT
                  THEN calculateCCRx(duty, ARR)
                  ELSE ARR)
            ELSE 0
    IN  /\ pc[t] = "ccr"
        /\ CCR' = [CCR EXCEPT ![frame[t].ch] = timRegCCR]
        /\ pc' = [pc EXCEPT ![t] = "release"]
        /\ UNCHANGED <<pwmState, PSC, ARR, chEn, mutex, frame, hwStarts>>
        /\ ConcFrame

\* HAL_TIM_PWM_Start in PWM_Start
HALStart(t) ==
    \E hal \in HAL_Status :
        /\ pc[t] = "hal"
        /\ frame' = [frame EXCEPT ![t].hal = hal]
        /\ IF hal = "HAL_OK"
           THEN /\ chEn' = chEn \cup {frame[t].ch}
                /\ hwStarts' = [hwStarts EXCEPT ![frame[t].ch] = @ + 1]
           ELSE UNCHANGED <<chEn, hwStarts>>
        /\ pc' = [pc EXCEPT ![t] = "release"]
        /\ UNCHANGED <<pwmState, PSC, ARR, CCR, mutex>>
        /\ ConcFrame

\* Timer_ReleaseMutex, and the return that follows it in PWM_SetDutyCycle and
\* on the HAL failure path of PWM_Start
ReleaseStep(t) ==
    /\ pc[t] = "release"
    /\ mutex' = Timer_ReleaseMutex(mutex, t).m
    /\ IF frame[t].op = "PWM_SetDutyCycle"
       THEN Return(t, frame[t].op, frame[t].ch, "PWM_ERR_NONE")
       ELSE IF frame[t].hal /= "HAL_OK"
       THEN Return(t, frame[t].op, frame[t].ch, "PWM_ERR_HAL")
       ELSE /\ pc' = [pc EXCEPT ![t] = "state"]
            /\ UNCHANGED frame
    /\ UNCHANGED <<pwmState, PSC, ARR, CCR, chEn, hwStarts>>
    /\ ConcFrame

\* The write of self->state after the release, and the return
WriteState(t) ==
    /\ pc[t] = "state"
    /\ pwmState' = [pwmState EXCEPT ![frame[t].ch] =
                       IF frame[t].op = "PWM_Start" THEN "STATE_STARTED"
                       ELSE IF @ = "STATE_UNINITIALIZED" THEN "STATE_STOPPED"
                       ELSE @]
    /\ Return(t, frame[t].op, frame[t].ch, "PWM_ERR_NONE")
    /\ UNCHANGED <<PSC, ARR, CCR, chEn, mutex, hwStarts>>
    /\ ConcFrame

InitConc == InitDrivers({TIMER_CHANNEL_1, TIMER_CHANNEL_2}, {"rtos"}, {4096}) /\ BoardReset

NextConc ==
    \E t \in Tasks :
        \/ BeginPWM_Init(t)
        \/ BeginPWM_Start(t)
        \/ BeginPWM_SetDutyCycle(t)
        \/ AcquireStep(t)
        \/ WritePSC(t)
        \/ WriteARR(t)
        \/ WriteCCR(t)
        \/ HALStart(t)
        \/ ReleaseStep(t)
        \/ WriteState(t)

SpecConc == InitConc /\ [][NextConc]_vars

(***************************************************************************)
(* SpecDIO: one task calls the functions of the DIO_IRQ singleton, in the  *)
(* build with the RTOS mutex and in the build with the flag.               *)
(***************************************************************************)

\* The callbacks of the application, and no callback
DIO_EXTICallback_t == {"NULL", "userButtonCallback", "generalIOCallback"}

\* A call of a DIO_IRQ function has returned ret and left the singleton d.
DIO_IRQ_Returns(op, pin, busy, d, ret, val) ==
    /\ dio' = d
    /\ Called(op, pin, busy, "HAL_OK", ret, val)
    /\ UNCHANGED <<timPtr, channelMode, ndebug, aborted, pwmObjs, pwmState, PSC, ARR,
                   CCR, chEn, mutex, initPeriod, CNT, encEn, drvState, pc, frame,
                   hwStarts, calc, gpio, gpioInit>>

CallDIO_IRQ_Init ==
    \E osNew \in BOOLEAN :
        \E r \in {DIO_IRQ_Init(dio, osNew)} :
            DIO_IRQ_Returns("DIO_IRQ_Init", 0, FALSE, r.d, r.ret, "NULL")

CallDIO_IRQ_Register ==
    \E pin \in {0, 13, NUM_EXTI}, callback \in DIO_EXTICallback_t,
       busy \in (IF dio.mutex.kind = "rtos" THEN BOOLEAN ELSE {FALSE}) :
        \E r \in {DIO_IRQ_Register(dio, "T1", pin, callback, busy)} :
            DIO_IRQ_Returns("DIO_IRQ_Register", pin, busy, r.d, r.ret, callback)

CallDIO_IRQ_Enable ==
    \E pin \in {0, 13, NUM_EXTI}, enable \in BOOLEAN,
       busy \in (IF dio.mutex.kind = "rtos" THEN BOOLEAN ELSE {FALSE}) :
        \E r \in {DIO_IRQ_Enable(dio, "T1", pin, enable, busy)} :
            DIO_IRQ_Returns("DIO_IRQ_Enable", pin, busy, r.d, r.ret, "NULL")

CallDIO_IRQ_IsEnabled ==
    \E pin \in {0, 13, NUM_EXTI},
       busy \in (IF dio.mutex.kind = "rtos" THEN BOOLEAN ELSE {FALSE}) :
        \E r \in {DIO_IRQ_IsEnabled(dio, "T1", pin, busy)} :
            DIO_IRQ_Returns("DIO_IRQ_IsEnabled", pin, busy, r.d,
                            IF r.ret THEN "true" ELSE "false", "NULL")

InitDIO ==
    /\ InitDrivers({}, {"null_id"}, {4096})
    /\ gpio = <<[portHandle |-> "GPIOA", pin |-> {8}], [portHandle |-> "GPIOA", pin |-> {9}]>>
    /\ gpioInit = {}
    /\ dio \in {DIO_IRQ_Zero(build) : build \in {"rtos", "flag"}}

NextDIO ==
    \/ CallDIO_IRQ_Init
    \/ CallDIO_IRQ_Register
    \/ CallDIO_IRQ_Enable
    \/ CallDIO_IRQ_IsEnabled

SpecDIO == InitDIO /\ [][NextDIO]_vars

(***************************************************************************)
(* SpecEncInit: an Encoder of the revision with USE_CUSTOM_HAL_INIT,       *)
(* constructed on a TIM block with its two pins on one port or on two,     *)
(* is initialised and asked for its maximum count, in a build with or      *)
(* without assert().                                                       *)
(***************************************************************************)

CallEncoder_Init ==
    \E maxCount \in {0, 1, 4096, TIM_REG_ARR_MAX}, filter \in {0, 16},
       hal \in HAL_Status, halMaster \in HAL_Status :
        \E r \in {Encoder_Init(initPeriod, gpioInit, timPtr, gpio, maxCount, filter,
                               ndebug, hal, halMaster)} :
            /\ ~aborted
            /\ initPeriod' = r.period
            /\ gpioInit' = r.gi
            /\ aborted' = (r.ret = "abort")
            /\ Called("Encoder_Init", TIMER_CHANNEL_1, FALSE,
                      IF hal = "HAL_OK" THEN halMaster ELSE hal, r.ret, maxCount)
            /\ UNCHANGED <<timPtr, channelMode, ndebug, pwmObjs, pwmState, PSC, ARR, CCR,
                           chEn, mutex, CNT, encEn, drvState, pc, frame, hwStarts, calc,
                           gpio, dio>>

\* Encoder_ctor on TIM1 (pins PA8 and PA9), on TIM2 with the pins PA0 and
\* PB3 or with a port that configGPIO does not know, and on TIM6, which
\* has no encoder pins.
InitEncInit ==
    /\ \E ctor \in {<<"TIM1", "GPIOA", {8}, "GPIOA", {9}>>,
                     <<"TIM2", "GPIOA", {0}, "GPIOB", {3}>>,
                     <<"TIM2", "GPIOA", {0}, "GPIOF", {3}>>,
                     <<"TIM6", "GPIOA", {8}, "GPIOA", {9}>>} :
           /\ timPtr = ctor[1]
           /\ gpio = <<[portHandle |-> ctor[2], pin |-> ctor[3]],
                       [portHandle |-> ctor[4], pin |-> ctor[5]]>>
    /\ channelMode = Timer_ctor
    /\ ndebug \in BOOLEAN
    /\ aborted = FALSE
    /\ pwmObjs = {}
    /\ pwmState = [ch \in {} |-> "STATE_UNINITIALIZED"]
    /\ PSC = 0
    /\ ARR = TIM_REG_ARR_MAX
    /\ CCR = [ch \in Channels |-> 0]
    /\ chEn = {}
    /\ mutex = Mutex_ctor("null_id")
    /\ initPeriod = 0     \* the TIM handle is a zeroed global until Encoder_Init
    /\ CNT = 0
    /\ encEn = FALSE
    /\ drvState = "STATE_UNINITIALIZED"
    /\ last = NoCall
    /\ TasksIdle
    /\ calc = NoCalc
    /\ gpioInit = {}
    /\ dio = DIO_IRQ_Zero("rtos")

NextEncInit ==
    \/ CallEncoder_Init
    \/ CallEncoder_GetMaxCount

SpecEncInit == InitEncInit /\ [][NextEncInit]_vars

(***************************************************************************)
(* SpecTimer: construction.  After Timer_ctor on any TIM block, the        *)
(* program claims channel modes (Timer_SetModePWM, Timer_SetModeEncoder)   *)
(* and constructs PWM structs (PWM_ctor), in a build with or without       *)
(* assert().                                                               *)
(***************************************************************************)

\* Channel arguments of Timer_SetModePWM: the six channels and one value
\* that is no channel.
ChannelArgs == 0 .. TIMER_MAX_NUM_CHANNELS

\* Channels the application constructs PWM structs for (TIM1_CHANNELS).
PwmCtorChannels == {TIMER_CHANNEL_1, TIMER_CHANNEL_2, TIMER_CHANNEL_3, TIMER_CHANNEL_4}

DriverFrame == UNCHANGED <<PSC, ARR, CCR, chEn, mutex, initPeriod, CNT, encEn, drvState,
                           pc, frame, hwStarts, calc, gpio, gpioInit, dio>>

InitTimer ==
    /\ timPtr \in TIMs
    /\ channelMode = Timer_ctor
    /\ ndebug \in BOOLEAN
    /\ aborted = FALSE
    /\ pwmObjs = {}
    /\ pwmState = [ch \in {} |-> "STATE_UNINITIALIZED"]
    /\ PSC = 0
    /\ ARR = TIM_REG_ARR_MAX
    /\ CCR = [ch \in Channels |-> 0]
    /\ chEn = {}
    /\ mutex = Mutex_ctor("rtos")
    /\ initPeriod = TIM_REG_ARR_MAX
    /\ CNT = 0
    /\ encEn = FALSE
    /\ drvState = "STATE_UNINITIALIZED"
    /\ last = NoCall
    /\ TasksIdle
    /\ calc = NoCalc
    /\ BoardReset

CallTimer_SetModePWM ==
    \E channel \in ChannelArgs :
        \E r \in {Timer_SetModePWM(timPtr, channelMode, channel)} :
            /\ ~aborted
            /\ channelMode' = r.cm
            /\ Called("Timer_SetModePWM", channel, FALSE, "HAL_OK", r.ret, 0)
            /\ UNCHANGED <<timPtr, ndebug, aborted, pwmObjs, pwmState>>
            /\ DriverFrame

CallTimer_SetModeEncoder ==
    \E r \in {Timer_SetModeEncoder(timPtr, channelMode)} :
        /\ ~aborted
        /\ channelMode' = r.cm
        /\ Called("Timer_SetModeEncoder", TIMER_CHANNEL_1, FALSE, "HAL_OK", r.ret, 0)
        /\ UNCHANGED <<timPtr, ndebug, aborted, pwmObjs, pwmState>>
        /\ DriverFrame

\* PWM_ctor: Timer_SetModePWM, assert(err == TIMER_ERR_NONE), then
\* Timer_GetChannelMask with its assert(isChannelValid(channel) == true).
\* A failed assert aborts the program unless the build defines NDEBUG.
CallPWM_ctor ==
    \E channel \in PwmCtorChannels :
        \E r \in {Timer_SetModePWM(timPtr, channelMode, channel)} :
            LET asserts == (r.ret = "TIMER_ERR_NONE") /\ (isChannelValid(channel) = TRUE)
            IN  /\ ~aborted
                /\ channelMode' = r.cm
                /\ Called("PWM_ctor", channel, FALSE, "HAL_OK", r.ret, 0)
                /\ IF asserts \/ ndebug
                   THEN /\ pwmObjs' = pwmObjs \cup {channel}
                        /\ pwmState' = [c \in pwmObjs \cup {channel} |->
                                           IF c = channel THEN "STATE_UNINITIALIZED"
                                           ELSE pwmState[c]]
                        /\ UNCHANGED aborted
                   ELSE /\ aborted' = TRUE
                        /\ UNCHANGED <<pwmObjs, pwmState>>
                /\ UNCHANGED <<timPtr, ndebug>>
                /\ DriverFrame

NextTimer ==
    \/ CallTimer_SetModePWM
    \/ CallTimer_SetModeEncoder
    \/ CallPWM_ctor

SpecTimer == InitTimer /\ [][NextTimer]_vars

(***************************************************************************)
(* SpecTimerArgs: Timer_SetModeEncoder as a function of its argument,      *)
(* applied to every value of the channelMode array of the Timer struct     *)
(* on every TIM block.                                                     *)
(***************************************************************************)

InitTimerArgs ==
    /\ timPtr \in TIMs
    /\ channelMode \in [Channels -> Channel_Mode_t]
    /\ ndebug = TRUE
    /\ aborted = FALSE
    /\ pwmObjs = {}
    /\ pwmState = [ch \in {} |-> "STATE_UNINITIALIZED"]
    /\ PSC = 0
    /\ ARR = TIM_REG_ARR_MAX
    /\ CCR = [ch \in Channels |-> 0]
    /\ chEn = {}
    /\ mutex = Mutex_ctor("rtos")
    /\ initPeriod = TIM_REG_ARR_MAX
    /\ CNT = 0
    /\ encEn = FALSE
    /\ drvState = "STATE_UNINITIALIZED"
    /\ last = NoCall
    /\ TasksIdle
    /\ calc = NoCalc
    /\ BoardReset

NextTimerArgs == CallTimer_SetModeEncoder

SpecTimerArgs == InitTimerArgs /\ [][NextTimerArgs]_vars

(***************************************************************************)
(* Claims                                                                  *)
(***************************************************************************)

\* The timer lock can be taken by task T1 when no other task holds it.
LockAvailable == Mutex_Acquire(mutex, "T1", FALSE).ok

\* C1: PWM_Stop succeeds only from Started.  In every reachable state, for
\* every PWM struct whose lock is available and whose hardware stop
\* succeeds: on a Started channel PWM_Stop returns PWM_ERR_NONE and leaves
\* the channel Stopped; on a Stopped channel it returns PWM_ERR_STOPPED and
\* on an Uninitialized channel PWM_ERR_UNINITIALIZED, changing nothing.
C1_StopOnlyFromStarted ==
    \A ch \in pwmObjs :
        LockAvailable =>
            LET r == PWM_Stop(W, ch, "T1", FALSE, "HAL_OK")
            IN  /\ (pwmState[ch] = "STATE_STARTED") =>
                       /\ r.ret = "PWM_ERR_NONE"
                       /\ r.w.pwmState[ch] = "STATE_STOPPED"
                /\ (pwmState[ch] = "STATE_STOPPED") =>
                       /\ r.ret = "PWM_ERR_STOPPED"
                       /\ r.w = W
                /\ (pwmState[ch] = "STATE_UNINITIALIZED") =>
                       /\ r.ret = "PWM_ERR_UNINITIALIZED"
                       /\ r.w = W

\* C2: PWM_Start on a Stopped channel, with the lock available and the
\* hardware enable succeeding, returns PWM_ERR_NONE and leaves the channel
\* Started; PWM_Start called again right after returns PWM_ERR_STARTED and
\* changes nothing; on an Uninitialized channel PWM_Start returns
\* PWM_ERR_UNINITIALIZED and changes nothing.
C2_StartContract ==
    \A ch \in pwmObjs :
        LET r == PWM_Start(W, ch, "T1", FALSE, "HAL_OK")
        IN  /\ (pwmState[ch] = "STATE_STOPPED" /\ LockAvailable) =>
                   /\ r.ret = "PWM_ERR_NONE"
                   /\ r.w.pwmState[ch] = "STATE_STARTED"
                   /\ \A busy \in BOOLEAN, hal \in HAL_Status :
                          LET again == PWM_Start(r.w, ch, "T1", busy, hal)
                          IN  /\ again.ret = "PWM_ERR_STARTED"
                              /\ again.w = r.w
            /\ (pwmState[ch] = "STATE_UNINITIALIZED") =>
                   \A busy \in BOOLEAN, hal \in HAL_Status :
                       LET u == PWM_Start(W, ch, "T1", busy, hal)
                       IN  /\ u.ret = "PWM_ERR_UNINITIALIZED"
                           /\ u.w = W

\* C2 witness: a Started channel on which a second PWM_Start has just been
\* refused with PWM_ERR_STARTED.
C2_Witness ==
    /\ last.op = "PWM_Start"
    /\ last.ret = "PWM_ERR_STARTED"
    /\ pwmState[last.ch] = "STATE_STARTED"
    /\ last.ch \in chEn

\* C3: on a four-channel PWM-capable block (TIM1, TIM2) without a channel
\* in encoder mode, Timer_SetModePWM of any unclaimed channel 0..3 returns
\* TIMER_ERR_NONE (the value PWM_ctor asserts) and marks the channel PWM,
\* so that Timer_IsModePWM is true for it afterwards.
C3_SetModePWMSucceeds ==
    (timPtr \in {"TIM1", "TIM2"} /\ ~Timer_IsModeEncoder(channelMode)) =>
        \A c \in PwmCtorChannels :
            (channelMode[c] = "CHANNEL_MODE_RESET") =>
                LET r == Timer_SetModePWM(timPtr, channelMode, c)
                IN  /\ r.ret = "TIMER_ERR_NONE"
                    /\ r.cm[c] = "CHANNEL_MODE_PWM"
                    /\ Timer_IsModePWM(r.cm, c)

\* C4: a claimed channel keeps its mode under every later
\* Timer_SetModePWM and Timer_SetModeEncoder call, and a claim that targets
\* an already claimed channel returns TIMER_ERR_MODE_CONFLICT.
C4_ClaimedOnceForGood ==
    \A c \in Channels :
        (channelMode[c] /= "CHANNEL_MODE_RESET") =>
            /\ \A a \in ChannelArgs :
                   Timer_SetModePWM(timPtr, channelMode, a).cm[c] = channelMode[c]
            /\ Timer_SetModeEncoder(timPtr, channelMode).cm[c] = channelMode[c]
            /\ Timer_SetModePWM(timPtr, channelMode, c).ret = "TIMER_ERR_MODE_CONFLICT"
            /\ (c \in {TIMER_CHANNEL_1, TIMER_CHANNEL_2} /\ validateEncoderTimer(timPtr)) =>
                   Timer_SetModeEncoder(timPtr, channelMode).ret = "TIMER_ERR_MODE_CONFLICT"

C6_LockFreeBetweenCalls ==
    /\ mutex.owner = "none"
    /\ LockAvailable

\* The acquisitions of the timer lock that task T1 attempts fail: the lock
\* is held, or another task keeps it for the whole timeout (busy).
AcquireFails(busy) == ~Mutex_Acquire(mutex, "T1", busy).ok

DutyOf(w, ch) == PWM_GetDutyCycle_tenthPct(w, ch, "T1", FALSE).ret

\* C10: on an initialised driver with the lock available, DRV8870_Brake
\* returns without error and leaves both duty cycles at 1000, as
\* DRV8870_Drive(STOPPED) does; DRV8870_Coast returns without error and
\* leaves both duty cycles at 0.
C10_BrakeAndCoastPatterns ==
    LET free    == [i \in 1 .. 2 |-> FALSE]
        brake   == DRV8870_Brake(W, "T1", free, "DRV8870_ERR_NONE")
        coast   == DRV8870_Coast(W, "T1", free, "DRV8870_ERR_NONE")
        stopped == DRV8870_Drive(W, "T1", "DRV8870_DIRECTION_STOPPED",
                                 DRIVE_STRENGTH_MAX_TENTH_PCT, free, "DRV8870_ERR_NONE")
    IN  (drvState = "STATE_DRIVING" /\ LockAvailable) =>
            /\ brake.ret = "DRV8870_ERR_NONE"
            /\ DutyOf(brake.w, channelIN0) = DUTY_CYCLE_STOPPED_TENTH_PCT
            /\ DutyOf(brake.w, channelIN1) = DUTY_CYCLE_STOPPED_TENTH_PCT
            /\ DutyOf(stopped.w, channelIN0) = DutyOf(brake.w, channelIN0)
            /\ DutyOf(stopped.w, channelIN1) = DutyOf(brake.w, channelIN1)
            /\ coast.ret = "DRV8870_ERR_NONE"
            /\ DutyOf(coast.w, channelIN0) = DUTY_CYCLE_COAST_TENTH_PCT
            /\ DutyOf(coast.w, channelIN1) = DUTY_CYCLE_COAST_TENTH_PCT

\* The prescaler and period a completed PWM_Init leaves together, and the
\* reset values
FrequencyRegisterPairs ==
    {<<0, TIM_REG_ARR_MAX>>} \cup
    {<<r.timRegPSC, r.timRegARR>> :
        r \in {x \in {calculateFrequencyRegisters(f, Timer_GetClockFrequency_hz(timPtr),
                                                  TIM_REG_ARR_MAX) : f \in ConcFrequencies} :
                  x.err = "PWM_ERR_NONE"}}

\* C8: with an RTOS mutex, two tasks are never both between a successful
\* Timer_AcquireMutex and the matching Timer_ReleaseMutex, the task that is
\* there holds the mutex, and the prescaler and period writes of one
\* PWM_Init do not interleave with those of another: whenever no task is
\* in such a section, PSC and ARR are the pair one PWM_Init wrote.
C8_MutualExclusion ==
    /\ \A t1 \in Tasks, t2 \in Tasks : (InCS(t1) /\ InCS(t2)) => (t1 = t2)
    /\ \A t \in Tasks : InCS(t) => (mutex.owner = t)
    /\ (\A t \in Tasks : ~InCS(t)) => (<<PSC, ARR>> \in FrequencyRegisterPairs)

\* C8 witness: one task has written the prescaler of its PWM_Init and not
\* yet the period, while the other task is at the acquisition in a
\* PWM_Init of the other channel with another frequency.
C8_Witness ==
    \E t1 \in Tasks, t2 \in Tasks :
        /\ pc[t1] = "arr"
        /\ pc[t2] = "acquire"
        /\ frame[t1].op = "PWM_Init"
        /\ frame[t2].op = "PWM_Init"
        /\ frame[t1].ch /= frame[t2].ch
        /\ frame[t1].timRegPSC /= frame[t2].timRegPSC
        /\ PSC /= 0
        /\ ARR /= frame[t1].timRegARR

\* C9: PWM_Start calls of two tasks on one channel behave as in a serial
\* order: the HAL enable of a channel is issued successfully once, and two
\* tasks have not both returned PWM_ERR_NONE from PWM_Start on the channel.
C9_StartSerializable ==
    \A ch \in pwmObjs :
        /\ hwStarts[ch] <= 1
        /\ \A t1 \in Tasks, t2 \in Tasks :
               (/\ frame[t1].op = "PWM_Start" /\ frame[t1].ch = ch
                /\ frame[t1].ret = "PWM_ERR_NONE"
                /\ frame[t2].op = "PWM_Start" /\ frame[t2].ch = ch
                /\ frame[t2].ret = "PWM_ERR_NONE") => (t1 = t2)

\* Strengths at and around the limits of the strength range
StrengthProbes == {0, 1, 300, 999, 1000, 1001, 1200, 65535}

\* The duty cycles of (IN0, IN1) for a direction and a strength
DriveDutyCycles(direction, strength) ==
    LET s == IF strength > 1000 THEN 1000 ELSE strength
    IN  CASE direction = "DRV8870_DIRECTION_FORWARD" -> <<1000, 1000 - s>>
          [] direction = "DRV8870_DIRECTION_REVERSE" -> <<1000 - s, 1000>>
          [] direction = "DRV8870_DIRECTION_STOPPED" -> <<1000, 1000>>
          [] OTHER                                   -> <<0, 0>>

\* C11: for every direction and strength, calculateDutyCycles yields
\* Forward -> (1000, 1000 - s), Reverse -> (1000 - s, 1000), Stopped ->
\* (1000, 1000), Coast -> (0, 0) with s the strength clamped to 1000, and
\* DRV8870_Drive on an initialised driver with the lock available returns
\* without error and leaves these duty cycles on IN0 and IN1.
C11_DriveDutyCycles ==
    \A direction \in DRV8870_Direction_t, strength \in StrengthProbes :
        LET expected   == DriveDutyCycles(direction, strength)
            dutyCycles == calculateDutyCycles(direction, strength)
            drive      == DRV8870_Drive(W, "T1", direction, strength,
                                        [i \in 1 .. 2 |-> FALSE], "DRV8870_ERR_NONE")
        IN  /\ dutyCycles.in0_tenthPct = expected[1]
            /\ dutyCycles.in1_tenthPct = expected[2]
            /\ (drvState = "STATE_DRIVING" /\ LockAvailable) =>
                   /\ drive.ret = "DRV8870_ERR_NONE"
                   /\ DutyOf(drive.w, channelIN0) = expected[1]
                   /\ DutyOf(drive.w, channelIN1) = expected[2]

\* C11 witness: DRV8870_Drive with strength 300 has just returned without
\* error and left the reverse pattern (700, 1000).
C11_Witness ==
    /\ last.op = "DRV8870_Drive"
    /\ last.ret = "DRV8870_ERR_NONE"
    /\ last.val = 300
    /\ drvState = "STATE_DRIVING"
    /\ DutyOf(W, channelIN0) = 700
    /\ DutyOf(W, channelIN1) = 1000

\* C12: on a driver that is not yet initialised, DRV8870_Init returns
\* DRV8870_ERR_NONE and leaves the state Driving exactly when PWM_Init of
\* IN0 and IN1 and PWM_Start of IN0 and IN1 all succeed; when a step fails
\* (frequency rejected, lock not acquired, channel already started, HAL
\* failure of PWM_Start) it returns another value, leaves the state
\* Uninitialized and, after a failed start of IN0, does not start IN1.
C12_InitAllOrNothing ==
    (drvState = "STATE_UNINITIALIZED") =>
        \A f \in Frequencies, busy \in BusyAnswers(4), hal0 \in HAL_Status,
           hal1 \in HAL_Status, hole \in PWMErrMapHoles :
            LET init      == DRV8870_Init(W, timPtr, "T1", f, busy, hal0, hal1, hole)
                registers == calculateFrequencyRegisters(
                                 f, Timer_GetClockFrequency_hz(timPtr), TIM_REG_ARR_MAX)
                allSucceed == /\ registers.err = "PWM_ERR_NONE"
                              /\ LockAvailable
                              /\ \A i \in 1 .. 4 : busy[i] = FALSE
                              /\ pwmState[channelIN0] /= "STATE_STARTED"
                              /\ pwmState[channelIN1] /= "STATE_STARTED"
                              /\ hal0 = "HAL_OK"
                              /\ hal1 = "HAL_OK"
            IN  /\ allSucceed =>
                       /\ init.ret = "DRV8870_ERR_NONE"
                       /\ init.w.drvState = "STATE_DRIVING"
                /\ ~allSucceed =>
                       /\ init.ret /= "DRV8870_ERR_NONE"
                       /\ init.w.drvState = "STATE_UNINITIALIZED"
                /\ (hal0 /= "HAL_OK") => (init.w.pwmState[channelIN1] = pwmState[channelIN1]
                                          \/ init.w.pwmState[channelIN1] = "STATE_STOPPED")

\* C13: with the timer lock free at the call, Encoder_SetCounter(v) leaves in
\* the hardware counter u % maxCount when u > maxCount and u otherwise, u
\* being v read as an unsigned 16-bit value (5000 with maxCount 4096 leaves
\* 904), and Encoder_ResetCounter leaves 0.
C13_SetCounterWrites ==
    LockAvailable =>
        \A div0 \in Div0Choices :
            /\ \A count \in Counts :
                   LET u == CastUInt16(count)
                   IN  Encoder_SetCounter(W, "T1", initPeriod, count,
                                          FALSE, FALSE, div0).w.CNT
                           = IF u > initPeriod THEN u % initPeriod ELSE u
            /\ Encoder_ResetCounter(W, "T1", initPeriod, FALSE, FALSE, div0).w.CNT = 0

\* C14: Encoder_GetCounter returns the low 16 bits of the hardware counter
\* read as a two's-complement int16: c when c < 32768 and c - 65536
\* otherwise; a counter at 0x7FFF that counts up by one reads -32768 and a
\* counter at 0x8000 that counts down by one reads 32767.
C14_GetCounterInt16 ==
    /\ Encoder_GetCounter(W) = IF CNT < 32768 THEN CNT ELSE CNT - 65536
    /\ (last.op = "Encoder_GetCounter") =>
           last.val = IF CNT < 32768 THEN CNT ELSE CNT - 65536
    /\ (last.op = "TIM_EncoderCount" /\ last.ret = "up" /\ last.val = 32767) =>
           Encoder_GetCounter(W) = -32768
    /\ (last.op = "TIM_EncoderCount" /\ last.ret = "down" /\ last.val = 32768) =>
           Encoder_GetCounter(W) = 32767

\* The counter has counted up from 0x7FFF and Encoder_GetCounter has read it.
C14_Witness ==
    /\ last.op = "Encoder_GetCounter"
    /\ CNT = 32768
    /\ last.val = -32768

C16_InvalidFrequencyRejected ==
    /\ \A switchingFrequency_hz \in {0, 1, 5000, 170000, 170001, 200000},
          sourceFrequency_hz \in {0, 999, HAL_RCC_GetPCLK2Freq},
          maxOverflow \in {0, 999, DUTY_CYCLE_MAX_TENTH_PCT, TIM_REG_ARR_MAX} :
           LET cycles   == IF switchingFrequency_hz = 0
                           THEN 0 ELSE sourceFrequency_hz \div switchingFrequency_hz
               smaller  == IF cycles < maxOverflow THEN cycles ELSE maxOverflow
               rejected == \/ switchingFrequency_hz = 0
                           \/ sourceFrequency_hz = 0
                           \/ maxOverflow = 0
                           \/ smaller < 1000
           IN  rejected =>
                   calculateFrequencyRegisters(switchingFrequency_hz, sourceFrequency_hz,
                                               maxOverflow).err = "PWM_ERR_INVALID_PARAM"
    /\ \A ch \in pwmObjs, switchingFrequency_hz \in {0, 170001, 200000},
          dutyCycle_tenthPct \in DutyCycles, busy \in BusyChoices :
           LET init == PWM_Init(W, timPtr, ch, "T1", switchingFrequency_hz,
                                dutyCycle_tenthPct, busy)
           IN  /\ init.ret = "PWM_ERR_INVALID_PARAM"
               /\ init.w = W

\* PWM_Init has rejected the frequency on a channel that is still
\* Uninitialized, with the registers at their reset values.
C16_Witness ==
    /\ last.op = "PWM_Init"
    /\ last.ret = "PWM_ERR_INVALID_PARAM"
    /\ pwmState[last.ch] = "STATE_UNINITIALIZED"
    /\ PSC = 0
    /\ ARR = TIM_REG_ARR_MAX
    /\ CCR[last.ch] = 0

\* C17: for a dividend and a non-zero divisor of an unsigned integer type,
\* UIntRoundingDivide uses the bias floor(divisor / 2) and UIntCeilingDivide
\* the bias divisor - 1; each returns floor((dividend + bias) / divisor)
\* when dividend + bias is representable and floor(dividend / divisor) when
\* the sum would wrap.  Checked for every dividend and divisor of WordBits
\* bits, and for 32-bit arguments whose sum does not wrap.
C17_RoundingAndCeilingDivide ==
    /\ (calc.fn \in {"UIntRoundingDivide", "UIntCeilingDivide"}) =>
           LET bias == IF calc.fn = "UIntRoundingDivide"
                       THEN calc.b \div 2 ELSE calc.b - 1
           IN  calc.out = IF calc.a + bias < Pow2(calc.bits)
                          THEN (calc.a + bias) \div calc.b
                          ELSE calc.a \div calc.b
    /\ \A dividend \in {0, 1, 7, 999, 170000000}, divisor \in {1, 2, 3, 1000, 34000} :
           /\ UIntRoundingDivide(dividend, divisor)
                  = (dividend + (divisor \div 2)) \div divisor
           /\ UIntCeilingDivide(dividend, divisor)
                  = (dividend + (divisor - 1)) \div divisor

\* The largest dividend divided by 2 with rounding up: the sum wraps to 0
\* and the truncated quotient is returned.
C17_Witness ==
    /\ calc.fn = "UIntCeilingDivide"
    /\ calc.a = Pow2(calc.bits) - 1
    /\ calc.b = 2
    /\ calc.out = calc.a \div 2

\* C18: for every duty cycle d in 0 .. 1000 and every auto-reload value P in
\* 1000 .. 65535, calculateDutyCycle_tenthPct(P, calculateCCRx(d, P))
\* differs from d by at most 1.
C18_DutyCycleRoundTrip ==
    (calc.fn = "calculateDutyCycle_tenthPct") =>
        /\ calc.out <= calc.a + 1
        /\ calc.a <= calc.out + 1

\* 0.1 % of 65535 counts: the compare value is 66 and reads back as 1.
C18_Witness ==
    /\ calc.fn = "calculateDutyCycle_tenthPct"
    /\ calc.a = 1
    /\ calc.b = TIM_REG_ARR_MAX
    /\ calc.c = 66
    /\ calc.out = 1

\* C19: with the lock available, for every period a successful PWM_Init
\* configures and every duty cycle d in 0 .. 1000, PWM_SetDutyCycle(d) on
\* the initialised channel followed by PWM_GetDutyCycle_tenthPct returns
\* exactly d.  PWM_Init is applied in every reachable state with the
\* frequencies that give the periods 65385, 65535, 34000, 10541, 1005 and
\* 1000; in the state itself the same holds for an initialised channel.
C19_SetThenGetDutyCycle ==
    LockAvailable =>
        \A ch \in pwmObjs,
           d \in {0, 1, 2, 3, 249, 250, 251, 333, 499, 500, 501, 666, 749, 750,
                  997, 998, 999, 1000} :
            /\ \A f \in {100, 2594, 5000, 16126, 169000, 170000} :
                   LET init == PWM_Init(W, timPtr, ch, "T1", f, 0, FALSE)
                       set  == PWM_SetDutyCycle(init.w, ch, "T1", d, FALSE)
                       get  == PWM_GetDutyCycle_tenthPct(set.w, ch, "T1", FALSE)
                   IN  /\ init.ret = "PWM_ERR_NONE"
                       /\ set.ret = "PWM_ERR_NONE"
                       /\ get.ret = d
            /\ (pwmState[ch] /= "STATE_UNINITIALIZED") =>
                   LET set == PWM_SetDutyCycle(W, ch, "T1", d, FALSE)
                       get == PWM_GetDutyCycle_tenthPct(set.w, ch, "T1", FALSE)
                   IN  /\ set.ret = "PWM_ERR_NONE"
                       /\ get.ret = d

\* PWM_GetDutyCycle_tenthPct has returned the 500 that PWM_SetDutyCycle or
\* PWM_Init wrote as compare value 17000 of the period 34000.
C19_Witness ==
    /\ last.op = "PWM_GetDutyCycle_tenthPct"
    /\ last.val = 500
    /\ ARR = 34000
    /\ CCR[last.ch] = 17000

\* C20: a duty cycle above 1000 is never rejected and is treated exactly
\* like 1000: limitDutyCycle_tenthPct gives 1000 for it and leaves a value
\* it has limited unchanged, and PWM_Init(f, d) and PWM_SetDutyCycle(d)
\* return what they return for 1000 and leave the same registers and state;
\* on an initialised channel with the lock available PWM_SetDutyCycle(d)
\* succeeds and writes the whole period as compare value.
C20_AboveMaxIsMax ==
    /\ \A d \in {0, 1, 500, 999, 1000, 1001, 1200, 65535} :
           /\ limitDutyCycle_tenthPct(limitDutyCycle_tenthPct(d))
                  = limitDutyCycle_tenthPct(d)
           /\ (d > DUTY_CYCLE_MAX_TENTH_PCT) =>
                  limitDutyCycle_tenthPct(d) = DUTY_CYCLE_MAX_TENTH_PCT
    /\ \A ch \in pwmObjs, d \in {1001, 1200, 65535}, busy \in BusyChoices :
           /\ \A f \in Frequencies :
                  PWM_Init(W, timPtr, ch, "T1", f, d, busy)
                      = PWM_Init(W, timPtr, ch, "T1", f, DUTY_CYCLE_MAX_TENTH_PCT, busy)
           /\ PWM_SetDutyCycle(W, ch, "T1", d, busy)
                  = PWM_SetDutyCycle(W, ch, "T1", DUTY_CYCLE_MAX_TENTH_PCT, busy)
           /\ (LockAvailable /\ pwmState[ch] /= "STATE_UNINITIALIZED") =>
                  LET set == PWM_SetDutyCycle(W, ch, "T1", d, FALSE)
                  IN  /\ set.ret = "PWM_ERR_NONE"
                      /\ set.w.CCR[ch] = ARR
                      /\ PWM_Init(W, timPtr, ch, "T1", 5000, d, FALSE).ret = "PWM_ERR_NONE"

\* PWM_SetDutyCycle has accepted 1001 and written the whole period.
C20_Witness ==
    /\ last.op = "PWM_SetDutyCycle"
    /\ last.val = 1001
    /\ last.ret = "PWM_ERR_NONE"
    /\ CCR[last.ch] = ARR

\* C21: PWM_SetDutyCycle never changes a channel state; on a Stopped or a
\* Started channel it is accepted (PWM_ERR_NONE when the lock is acquired,
\* PWM_ERR_RESOURCE_BLOCKED when it is not); on an Uninitialized channel it
\* returns PWM_ERR_UNINITIALIZED whatever the lock answers and leaves the
\* registers and the lock as they were.
C21_SetDutyCycleKeepsState ==
    \A ch \in pwmObjs, d \in DutyCycles, busy \in BusyChoices :
        LET set == PWM_SetDutyCycle(W, ch, "T1", d, busy)
        IN  /\ set.w.pwmState = pwmState
            /\ (pwmState[ch] = "STATE_UNINITIALIZED") =>
                   /\ set.ret = "PWM_ERR_UNINITIALIZED"
                   /\ set.w = W
            /\ (pwmState[ch] \in {"STATE_STOPPED", "STATE_STARTED"}) =>
                   set.ret = IF AcquireFails(busy)
                             THEN "PWM_ERR_RESOURCE_BLOCKED" ELSE "PWM_ERR_NONE"

\* PWM_SetDutyCycle has succeeded on a Started channel, which is still
\* Started.
C21_Witness ==
    /\ last.op = "PWM_SetDutyCycle"
    /\ last.ret = "PWM_ERR_NONE"
    /\ pwmState[last.ch] = "STATE_STARTED"

\* C22: a successful PWM_Init on an Uninitialized channel leaves it Stopped
\* and a failed one leaves it Uninitialized; PWM_Init on a Stopped or
\* Started channel, successful or not, leaves the state as it was; no
\* PWM_Init, PWM_Start, PWM_Stop or PWM_SetDutyCycle call leaves a channel
\* Uninitialized that was not Uninitialized before, or changes the state of
\* another channel.
C22_InitStateTransitions ==
    /\ (last.op = "PWM_Init" /\ last.ret = "PWM_ERR_NONE") =>
           pwmState[last.ch] /= "STATE_UNINITIALIZED"
    /\ \A ch \in pwmObjs, busy \in BusyChoices :
           /\ \A f \in Frequencies, d \in DutyCycles :
                  LET init == PWM_Init(W, timPtr, ch, "T1", f, d, busy)
                  IN  init.w.pwmState =
                          IF pwmState[ch] = "STATE_UNINITIALIZED"
                             /\ init.ret = "PWM_ERR_NONE"
                          THEN [pwmState EXCEPT ![ch] = "STATE_STOPPED"]
                          ELSE pwmState
           /\ \A hal \in HAL_Status, d \in DutyCycles :
                  \A after \in {PWM_Start(W, ch, "T1", busy, hal).w.pwmState,
                                PWM_Stop(W, ch, "T1", busy, hal).w.pwmState,
                                PWM_SetDutyCycle(W, ch, "T1", d, busy).w.pwmState} :
                      \A other \in pwmObjs :
                          /\ (other /= ch) => after[other] = pwmState[other]
                          /\ (pwmState[other] /= "STATE_UNINITIALIZED") =>
                                 after[other] /= "STATE_UNINITIALIZED"

\* A PWM_Init has succeeded on a channel that is Started, and it still is.
C22_Witness ==
    /\ last.op = "PWM_Init"
    /\ last.ret = "PWM_ERR_NONE"
    /\ pwmState[last.ch] = "STATE_STARTED"

\* C23: on an Uninitialized channel PWM_GetSwitchingFrequency_hz and
\* PWM_GetDutyCycle_tenthPct return 0, whatever the prescaler, auto-reload
\* and compare registers hold and whether or not the lock can be acquired.
C23_UninitializedGettersReturnZero ==
    /\ (last.op \in {"PWM_GetSwitchingFrequency_hz", "PWM_GetDutyCycle_tenthPct"}
        /\ pwmState[last.ch] = "STATE_UNINITIALIZED") => last.val = 0
    /\ \A ch \in pwmObjs, busy \in BusyChoices :
           (pwmState[ch] = "STATE_UNINITIALIZED") =>
               \A psc \in {PSC, 0, 25, 65535}, arr \in {ARR, 1, 1000, TIM_REG_ARR_MAX},
                  ccr \in {CCR[ch], 1, 500, TIM_REG_ARR_MAX} :
                   LET w == [W EXCEPT !.PSC = psc, !.ARR = arr, !.CCR[ch] = ccr]
                   IN  /\ PWM_GetSwitchingFrequency_hz(w, timPtr, ch, "T1", busy).ret = 0
                       /\ PWM_GetDutyCycle_tenthPct(w, ch, "T1", busy).ret = 0

\* PWM_GetSwitchingFrequency_hz has returned 0 for an Uninitialized channel
\* of a timer that another channel's PWM_Init has set to 5000 Hz.
C23_Witness ==
    /\ last.op = "PWM_GetSwitchingFrequency_hz"
    /\ last.val = 0
    /\ pwmState[last.ch] = "STATE_UNINITIALIZED"
    /\ ARR = 34000
    /\ last.busy = FALSE

\* C24: a Mutex without a synchronisation primitive behind it (NULL mutex
\* id in the CMSIS-OS2 build, or the build without CMSIS-OS2) makes
\* Mutex_Acquire and Mutex_Release calls that change nothing and return
\* true after every call history: also for a second acquire in a row and
\* for a release that no acquire preceded.
C24_NoPrimitiveNoOp ==
    (mutex.kind \in {"null_id", "flag"}) =>
        \A t \in Tasks :
            LET first   == Mutex_Acquire(mutex, t, FALSE)
                second  == Mutex_Acquire(first.m, t, FALSE)
                release == Mutex_Release(mutex, t)
            IN  /\ first.ok /\ first.m = mutex
                /\ second.ok /\ second.m = mutex
                /\ release.ok /\ release.m = mutex

\* C25: validatePWMChannel follows the hardware table: TIM6 and TIM7 accept
\* no channel, TIM12 and TIM15 exactly channels 0 and 1, TIM13, TIM14, TIM16
\* and TIM17 exactly channel 0, every other timer exactly channels 0 .. 3;
\* validateEncoderTimer accepts exactly the timers outside TIM6, TIM7 and
\* TIM12 .. TIM17.  Stated of the timer the Timer struct is built on, which
\* is any of TIMs.
C25_CapabilityTable ==
    \A tp \in {timPtr} :
        /\ \A channel \in Channels :
               validatePWMChannel(tp, channel) =
                   (channel \in
                       (IF tp \in {"TIM6", "TIM7"} THEN {}
                        ELSE IF tp \in {"TIM12", "TIM15"}
                             THEN {TIMER_CHANNEL_1, TIMER_CHANNEL_2}
                        ELSE IF tp \in {"TIM13", "TIM14", "TIM16", "TIM17"}
                             THEN {TIMER_CHANNEL_1}
                        ELSE {TIMER_CHANNEL_1, TIMER_CHANNEL_2,
                              TIMER_CHANNEL_3, TIMER_CHANNEL_4}))
        /\ validateEncoderTimer(tp) =
               (tp \notin {"TIM6", "TIM7", "TIM12", "TIM13", "TIM14", "TIM15",
                           "TIM16", "TIM17"})

\* C26: on a Timer or an Encoder constructed with a NULL mutex pointer every
\* acquire and every release step reports success and no assertion fails,
\* in a build with assert as in one without.
C26_NullMutexPointerUnlocked ==
    \A deref \in NullDerefs :
        LET step == Mutex_NullSelf(ndebug, deref)
        IN  /\ step.ok
            /\ ~step.aborted

\* C27: whenever the driver is not initialised, whether no DRV8870_Init was
\* called yet or an earlier one failed at any step, a DRV8870_Init during
\* which the lock is available and the hardware calls succeed returns
\* DRV8870_ERR_NONE and leaves the state Driving.
C27_InitCanBeRetried ==
    (drvState = "STATE_UNINITIALIZED" /\ LockAvailable) =>
        \A hole \in PWMErrMapHoles :
            LET retry == DRV8870_Init(W, timPtr, "T1", 5000, [i \in 1 .. 4 |-> FALSE],
                                      "HAL_OK", "HAL_OK", hole)
            IN  /\ retry.ret = "DRV8870_ERR_NONE"
                /\ retry.w.drvState = "STATE_DRIVING"

\* C28: PWM_SetDutyCycle computes the compare value from the period that
\* TIM.ARR holds when it writes, with the lock held: 0 for d = 0, the period
\* for d >= 1000 and round(d * period / 1000) otherwise, also when a
\* PWM_Init of another channel has changed the period since this channel
\* was initialised.
C28_CompareFromCurrentPeriod ==
    /\ \A t \in Tasks :
           (pc[t] = "release" /\ frame[t].op = "PWM_SetDutyCycle") =>
               /\ mutex.owner = t
               /\ CCR[frame[t].ch] =
                      (frame[t].dutyCycle_tenthPct * ARR + 500) \div 1000
    /\ \A ch \in pwmObjs, d \in {0, 1, 500, 999, 1000, 1001} :
           (pwmState[ch] /= "STATE_UNINITIALIZED" /\ LockAvailable) =>
               PWM_SetDutyCycle(W, ch, "T1", d, FALSE).w.CCR[ch] =
                   IF d = 0 THEN 0
                   ELSE IF d >= 1000 THEN ARR
                   ELSE (d * ARR + 500) \div 1000

\* Task T1 has written the compare value of 50.0 % for the period 65385 of
\* 100 Hz and still holds the lock, on a channel other than the one whose
\* PWM_Init task T2 has completed.
C28_Witness ==
    /\ pc["T1"] = "release"
    /\ frame["T1"].op = "PWM_SetDutyCycle"
    /\ ARR = 65385
    /\ CCR[frame["T1"].ch] = 32693
    /\ pc["T2"] = "idle"
    /\ frame["T2"].op = "PWM_Init"
    /\ frame["T2"].ret = "PWM_ERR_NONE"
    /\ frame["T2"].ch /= frame["T1"].ch

C31_SetCounterNoModByZero ==
    \A count \in Counts, busy1 \in BusyChoices, busy2 \in BusyChoices,
       div0 \in Div0Choices :
        LET set == Encoder_SetCounter(W, "T1", initPeriod, count, busy1, busy2, div0)
        IN  /\ set.fault = FALSE
            /\ (set.w.CNT /= CNT) => (set.w.CNT <= initPeriod)

\* C32: DRV8870_Drive changes the duty cycle of IN0, then that of IN1.  On
\* a Driving driver: when the IN0 change fails (its lock acquisition is
\* refused) the error is returned and neither compare value changes; when
\* the IN1 change fails the error is returned, IN0 has its new duty cycle
\* and IN1 keeps its old compare value; otherwise both have the new duty
\* cycles and the call returns without error.  The driver state is the
\* same after DRV8870_Drive in every case.
C32_DriveIN0ThenIN1 ==
    \A direction \in DRV8870_Direction_t, strength \in Strengths,
       busy \in BusyAnswers(2) :
        LET expected == DriveDutyCycles(direction, strength)
            drive    == DRV8870_Drive(W, "T1", direction, strength, busy,
                                      "DRV8870_ERR_NONE")
        IN  /\ drive.w.drvState = drvState
            /\ (drvState = "STATE_DRIVING" /\ LockAvailable) =>
                   /\ busy[1] =>
                          /\ drive.ret = "DRV8870_ERR_RESOURCE_BLOCKED"
                          /\ drive.w.CCR = CCR
                   /\ busy[2] =>
                          /\ drive.ret = "DRV8870_ERR_RESOURCE_BLOCKED"
                          /\ DutyOf(drive.w, channelIN0) = expected[1]
                          /\ drive.w.CCR[channelIN1] = CCR[channelIN1]
                   /\ (~busy[1] /\ ~busy[2]) =>
                          /\ drive.ret = "DRV8870_ERR_NONE"
                          /\ DutyOf(drive.w, channelIN0) = expected[1]
                          /\ DutyOf(drive.w, channelIN1) = expected[2]

\* DRV8870_Drive in reverse at strength 300 has returned
\* DRV8870_ERR_RESOURCE_BLOCKED after it changed IN0 to 700: IN1 still has
\* the duty cycle 0 it had before the call.
C32_Witness ==
    /\ last.op = "DRV8870_Drive"
    /\ last.ret = "DRV8870_ERR_RESOURCE_BLOCKED"
    /\ last.val = 300
    /\ drvState = "STATE_DRIVING"
    /\ DutyOf(W, channelIN0) = 700
    /\ DutyOf(W, channelIN1) = 0

\* C33: in every reachable state a Driving driver has both of its PWM
\* channels Started; and DRV8870_Drive, DRV8870_Brake and DRV8870_Coast on
\* a driver that is not Driving return DRV8870_ERR_UNINITIALIZED and
\* change no compare value.
C33_DrivingMeansStarted ==
    /\ (drvState = "STATE_DRIVING") =>
           /\ pwmState[channelIN0] = "STATE_STARTED"
           /\ pwmState[channelIN1] = "STATE_STARTED"
    /\ (drvState /= "STATE_DRIVING") =>
           \A busy \in BusyAnswers(2) :
               /\ \A direction \in DRV8870_Direction_t, strength \in Strengths :
                      LET drive == DRV8870_Drive(W, "T1", direction, strength, busy,
                                                 "DRV8870_ERR_NONE")
                      IN  /\ drive.ret = "DRV8870_ERR_UNINITIALIZED"
                          /\ drive.w = W
               /\ DRV8870_Brake(W, "T1", busy, "DRV8870_ERR_NONE")
                      = [w |-> W, ret |-> "DRV8870_ERR_UNINITIALIZED"]
               /\ DRV8870_Coast(W, "T1", busy, "DRV8870_ERR_NONE")
                      = [w |-> W, ret |-> "DRV8870_ERR_UNINITIALIZED"]

C38_RegisteredOnce ==
    /\ dio.mutex.owner = "none"
    /\ \A pin \in 0 .. NUM_EXTI - 1, callback \in DIO_EXTICallback_t,
          busy \in (IF dio.mutex.kind = "rtos" THEN BOOLEAN ELSE {FALSE}) :
           LET register == DIO_IRQ_Register(dio, "T1", pin, callback, busy)
           IN  /\ register.d.mutex = dio.mutex
               /\ (dio.initialized = FALSE) =>
                      /\ register.ret = "DIO_IRQ_ERR_UNINITIALIZED"
                      /\ register.d = dio
               /\ (dio.initialized /\ dio.configs[pin].callback /= "NULL") =>
                      /\ register.d.configs = dio.configs
                      /\ register.ret = IF busy THEN "DIO_IRQ_ERR_RESOURCE_BLOCKED"
                                        ELSE "DIO_IRQ_ERR_REGISTERED"
    /\ (last.op = "DIO_IRQ_Register" /\ last.ret = "DIO_IRQ_ERR_NONE") =>
           dio.configs[last.ch] = [callback |-> last.val, enable |-> TRUE]

\* DIO_IRQ_Register of generalIOCallback on pin 13 has returned
\* DIO_IRQ_ERR_REGISTERED: the pin keeps userButtonCallback and stays
\* disabled, as DIO_IRQ_Enable left it.
C38_Witness ==
    /\ last.op = "DIO_IRQ_Register"
    /\ last.ch = 13
    /\ last.val = "generalIOCallback"
    /\ last.ret = "DIO_IRQ_ERR_REGISTERED"
    /\ dio.configs[13] = [callback |-> "userButtonCallback", enable |-> FALSE]
    /\ dio.mutex = Mutex_ctor("rtos")

\* C35: Encoder_Init never succeeds with maxCount 0, and after a
\* successful Encoder_Init(maxCount, filter) Encoder_GetMaxCount returns
\* that maxCount, which is not 0, on every later call.
C35_InitRejectsZeroMaxCount ==
    /\ \A maxCount \in {0, 4096, TIM_REG_ARR_MAX}, filter \in {0, 16},
          hal \in HAL_Status, halMaster \in HAL_Status :
           LET init == Encoder_Init(initPeriod, gpioInit, timPtr, gpio, maxCount, filter,
                                    ndebug, hal, halMaster)
           IN  (init.ret = "true") =>
                   /\ maxCount /= 0
                   /\ Encoder_GetMaxCount(W, "T1", init.period, FALSE).ret = maxCount
    /\ (last.op = "Encoder_GetMaxCount" /\ initPeriod /= 0) => last.val = initPeriod

\* C39: with the pins of the two encoder channels on different ports,
\* mspInit configures the pin of channel 1 on the port of channel 1 and the
\* pin of channel 2 on the port of channel 2; with both on one port it
\* configures both pins on that port.  Either way, where mspInit succeeds
\* the pins configured by it are exactly these.
C39_EachPinOnItsPort ==
    LET msp == mspInit(gpioInit, timPtr, gpio)
    IN  (msp.ok /\ gpioInit = {}) =>
            {<<c[1], c[2]>> : c \in msp.gi}
                = {<<gpio[1].portHandle, p>> : p \in gpio[1].pin}
                      \cup {<<gpio[2].portHandle, p>> : p \in gpio[2].pin}

\* C36: Encoder_GetCounter is lock-free. Whatever the state of the timer
\* lock, taken or free, a call returns the counter register as it stands
\* (read as an int16_t) and leaves the lock and the counter as they were.
C36_GetCounterLockFree ==
    [][(last'.op = "Encoder_GetCounter") =>
           /\ last'.val = CastInt16(CNT)
           /\ mutex' = mutex
           /\ CNT' = CNT]_vars

\* Encoder_GetCounter has read a non-zero counter while the timer lock was
\* taken.
C36_Witness ==
    /\ last.op = "Encoder_GetCounter"
    /\ mutex.owner /= "none"
    /\ CNT /= 0
    /\ last.val = CastInt16(CNT)

\* C37: RightmostSetBit(n) is the zero-based position of the least
\* significant set bit of n for every non-zero n (0 for n = 0x0001), and 0
\* for n = 0.
C37_RightmostSetBitZeroBased ==
    (calc.fn = "RightmostSetBit") =>
        LET BitSet(i) == IF i < UINT16_BITS
                         THEN (calc.c \div Pow2(i)) % 2 = 1
                         ELSE (calc.b \div Pow2(i - UINT16_BITS)) % 2 = 1
        IN  IF (calc.b = 0) /\ (calc.c = 0)
            THEN calc.out = 0
            ELSE /\ calc.out \in 0 .. (UINT32_BITS - 1)
                 /\ BitSet(calc.out)
                 /\ \A i \in 0 .. (calc.out - 1) : ~BitSet(i)

====
